---- MODULE Spec2Model ----
(***************************************************************************)
(* The command bus of the musicbee media-controls handler.                 *)
(*                                                                         *)
(*   messages.rs       Command, Command::handle, MessageSender, Messages   *)
(*   listener/mod.rs   Listener (provided methods), List                   *)
(*   filesystem.rs     watch/handle_event, update, update_*                *)
(*   daemon.rs         the producers that are set up around the bus        *)
(*                                                                         *)
(* The dispatcher (Messages::listen_until_exit) is the only consumer of a  *)
(* bounded channel.  Producers append to the channel; Command::handle      *)
(* drives the registry (List) and appends follow-up commands to the same   *)
(* channel.  The communication files are written by the media source at    *)
(* any time, so a read of one of them returns any content.                 *)
(***************************************************************************)
EXTENDS Integers, Sequences, FiniteSets, TLC

\* mpsc::channel(8)
Capacity == 8

\* the largest registry that is explored
MaxMembers == 2

\* the number of commands the producers submit in one behaviour
MaxExternal == 2

\* the number of faults (a failing call, an unusable file) in one behaviour
MaxFaults == 1

\* the number of commands submitted in a burst
MaxBurst == 3

\* the number of commands submitted before and with a shutdown
MaxShutdown == 4

\* the number of calls made to a listener that is looked at on its own
MaxCalls == 4

\* the number of lines of a communication file, but for the metadata file,
\* which has three more
MaxLines == 3

\* the commands the producers submit around the loss of the plugin
MaxTie == 4

\* the commands the producers submit around a resumed playback
MaxResume == 4

\* how many images the upload service hands out
MaxImages == 3

\* how many seconds around each limit a seek duration is taken from
MaxNear == 2

VARIABLES
    listeners,  \* List.listeners: the attached flag of each member, in order
    queue,      \* the commands held by the channel, oldest first
    outbox,     \* sends Command::handle has started and not yet completed
    done,       \* listen_until_exit has returned
    config,     \* Config.detach_on_stop, Config.exit_with_plugin
    ticket,     \* how many commands the producers have submitted
    seen,       \* the ticket of the newest producer command taken from the channel
    last,       \* what the most recent turn of the loop did
    mon,        \* the refresh that is being followed after an attach
    spare,      \* how many faults can still happen
    logged,     \* how many errors the loop has logged
    menu,       \* the commands the producers submit in this behaviour
    limit,      \* how many of them
    daemon,     \* how far daemon::create has got with its cleanup
    member,     \* one listener on its own: its state and the last call made to it
    file,       \* one communication file on its own: its text and what was made of it
    cli,        \* the options of `run`, the pid file, and how run went
    hung,       \* the producers whose send found the receiver dropped
    cover_cache, \* Rpc on its own: its flag, CoverCache.cached, the uploads made
    seek        \* one seek event on its own: its direction and duration, and the outcome

vars == <<listeners, queue, outbox, done, config, ticket, seen, last, mon, spare, logged,
          menu, limit, daemon, member, file, cli, hung, cover_cache, seek>>

\* everything but the listener that is looked at on its own
busVars == <<listeners, queue, outbox, done, config, ticket, seen, last, mon, spare, logged,
             menu, limit, daemon, file, cli, hung, cover_cache, seek>>

----------------------------------------------------------------------------
(* Command *)

Producers == {"signal", "watcher", "tray", "keys"}

Cmd(type, arg, src, n, rid) ==
    [type |-> type, arg |-> arg, src |-> src, n |-> n, rid |-> rid]

\* a command the dispatcher sends to its own channel
Own(type, arg) == Cmd(type, arg, "self", 0, 0)

PlaybackStates == {"stopped", "paused", "playing"}
MetadataValues == {"m1"}
VolumeValues == {"v1"}

\* the commands each producer submits
ProducerCommands ==
    {<<"signal", "Exit", "">>,
     <<"watcher", "UpdateMetadata", "">>,
     <<"watcher", "UpdatePlayback", "">>,
     <<"watcher", "UpdateVolume", "">>,
     <<"watcher", "UpdatePluginActivation", "">>,
     <<"tray", "Exit", "">>,
     <<"tray", "Update", "">>,
     <<"tray", "Attached", "true">>,
     <<"tray", "Attached", "false">>,
     <<"keys", "MediaControlEvent", "">>}

----------------------------------------------------------------------------
(* The communication files *)

\* "" is a file that is being created, "bad" a malformed one
MetadataFile == {"", "bad"} \cup MetadataValues
PlaybackFile == {"", "bad", "loading"} \cup PlaybackStates
VolumeFile == {"", "bad"} \cup VolumeValues
PluginFile == {"", "bad", "true", "false"}

----------------------------------------------------------------------------
(* Listener and List *)

CallKinds == {"metadata", "volume", "playback_inner", "attach", "detach"}

\* the member call that fails in one turn of the loop, if any
NoFail == <<0, "none">>
FailChoices(ls) == {NoFail} \cup ((1 .. Len(ls)) \X CallKinds)

Call(m, op, arg, ok, via) ==
    [m |-> m, op |-> op, arg |-> arg, ok |-> ok, via |-> via]

Done(ls, calls, ok) == [ls |-> ls, calls |-> calls, ok |-> ok]

RECURSIVE AllFrom(_, _)
AllFrom(ls, i) ==
    IF i > Len(ls) THEN TRUE
    ELSE IF ~ls[i] THEN FALSE
    ELSE AllFrom(ls, i + 1)

\* only the first member is asked
ListAttached_First(ls) == Len(ls) = 0 \/ ls[1]

\* attached as soon as one member is: an empty registry is not
ListAttached_Any(ls) == \E i \in 1 .. Len(ls) : ls[i]

\* List::attached
ListAttached(ls) == AllFrom(ls, 1)

RECURSIVE ListForward(_, _, _, _, _, _, _)
\* List::metadata, List::volume, List::playback_inner
ListForward(ls, op, arg, fail, via, i, calls) ==
    IF i > Len(ls) THEN Done(ls, calls, TRUE)
    ELSE IF fail = <<i, op>>
         THEN Done(ls, Append(calls, Call(i, op, arg, FALSE, via)), FALSE)
         ELSE ListForward(ls, op, arg, fail, via, i + 1,
                          Append(calls, Call(i, op, arg, TRUE, via)))

RECURSIVE ListAttach(_, _, _, _, _)
\* List::attach
ListAttach(ls, fail, via, i, calls) ==
    IF i > Len(ls) THEN Done(ls, calls, TRUE)
    ELSE IF ls[i] THEN ListAttach(ls, fail, via, i + 1, calls)
    ELSE IF fail = <<i, "attach">>
         THEN Done(ls, Append(calls, Call(i, "attach", "", FALSE, via)), FALSE)
         ELSE ListAttach([ls EXCEPT ![i] = TRUE], fail, via, i + 1,
                         Append(calls, Call(i, "attach", "", TRUE, via)))

RECURSIVE ListDetach(_, _, _, _, _)
\* List::detach
ListDetach(ls, fail, via, i, calls) ==
    IF i > Len(ls) THEN Done(ls, calls, TRUE)
    ELSE IF ~ls[i] THEN ListDetach(ls, fail, via, i + 1, calls)
    ELSE IF fail = <<i, "detach">>
         THEN Done(ls, Append(calls, Call(i, "detach", "", FALSE, via)), FALSE)
         ELSE ListDetach([ls EXCEPT ![i] = FALSE], fail, via, i + 1,
                         Append(calls, Call(i, "detach", "", TRUE, via)))

Skip(ls) == Done(ls, <<>>, TRUE)

RECURSIVE ListenerPlayback(_, _, _, _, _, _)

\* the element of a one-element set: { e(x) : x \in {v} } names the value v
\* once, where e uses it several times
Only(S) == CHOOSE x \in S : TRUE

\* filesystem::update as Listener::attach_and_update calls it: the three
\* files are read and handed to the listener itself, metadata first
UpdateListener(ls, dos, fail, rd) ==
    Only({
        IF ~m.ok THEN m
        ELSE Only({
            IF ~p.ok THEN Done(p.ls, m.calls \o p.calls, FALSE)
            ELSE Only({ Done(v.ls, m.calls \o p.calls \o v.calls, v.ok) :
                        v \in { IF rd.volume = "" THEN Skip(p.ls)
                                ELSE IF rd.volume = "bad" THEN Done(p.ls, <<>>, FALSE)
                                ELSE ListForward(p.ls, "volume", rd.volume, fail,
                                                 "update", 1, <<>>) } }) :
            p \in { IF rd.playback \in {"", "loading"} THEN Skip(m.ls)
                    ELSE IF rd.playback = "bad" THEN Done(m.ls, <<>>, FALSE)
                    ELSE ListenerPlayback(m.ls, rd.playback, dos, fail, rd, "update") } }) :
        m \in { IF rd.metadata = "" THEN Skip(ls)
                ELSE IF rd.metadata = "bad" THEN Done(ls, <<>>, FALSE)
                ELSE ListForward(ls, "metadata", rd.metadata, fail, "update", 1, <<>>) } })

\* Listener::attach_and_update
AttachAndUpdate(ls, dos, fail, rd) ==
    Only({
        IF ~a.ok THEN a
        ELSE Only({ Done(u.ls, a.calls \o u.calls, u.ok) :
                    u \in {UpdateListener(a.ls, dos, fail, rd)} }) :
        a \in {ListAttach(ls, fail, "update", 1, <<>>)} })

\* Listener::playback
ListenerPlayback(ls, playback, dos, fail, rd, via) ==
    Only({
        Only({
            IF ~pre.ok THEN pre
            ELSE Only({ Done(inner.ls, pre.calls \o inner.calls, inner.ok) :
                        inner \in {ListForward(pre.ls, "playback_inner", playback, fail,
                                               via, 1, <<>>)} }) :
            pre \in { IF dos /\ playback = "stopped" /\ attached
                          THEN ListDetach(ls, fail, via, 1, <<>>)
                      ELSE IF dos /\ playback = "playing" /\ ~attached
                          THEN AttachAndUpdate(ls, dos, fail, rd)
                      ELSE Skip(ls) } }) :
        attached \in {ListAttached(ls)} })

----------------------------------------------------------------------------
(* filesystem.rs: the refresh that goes through the channel *)

\* update_metadata
UpdateMetadata(rd) ==
    IF rd.metadata = "" THEN [out |-> <<>>, ok |-> TRUE]
    ELSE IF rd.metadata = "bad" THEN [out |-> <<>>, ok |-> FALSE]
    ELSE [out |-> <<Own("Metadata", rd.metadata)>>, ok |-> TRUE]

\* update_playback
UpdatePlayback(rd) ==
    IF rd.playback = "" THEN [out |-> <<>>, ok |-> TRUE]
    ELSE IF rd.playback = "loading" THEN [out |-> <<>>, ok |-> TRUE]
    ELSE IF rd.playback = "bad" THEN [out |-> <<>>, ok |-> FALSE]
    ELSE [out |-> <<Own("Playback", rd.playback)>>, ok |-> TRUE]

\* update_volume
UpdateVolume(rd) ==
    IF rd.volume = "" THEN [out |-> <<>>, ok |-> TRUE]
    ELSE IF rd.volume = "bad" THEN [out |-> <<>>, ok |-> FALSE]
    ELSE [out |-> <<Own("Volume", rd.volume)>>, ok |-> TRUE]

\* update: the three are joined, each sends what it read, and the first
\* error of the three is returned once all of them have finished
Update(rd) ==
    LET m == UpdateMetadata(rd)
        p == UpdatePlayback(rd)
        v == UpdateVolume(rd)
    IN  [out |-> m.out \o p.out \o v.out, ok |-> m.ok /\ p.ok /\ v.ok]

\* plugin_available
PluginAvailable(rd) ==
    IF rd.plugin = "" THEN [ok |-> TRUE, some |-> FALSE, value |-> FALSE]
    ELSE IF rd.plugin = "bad" THEN [ok |-> FALSE, some |-> FALSE, value |-> FALSE]
    ELSE [ok |-> TRUE, some |-> TRUE, value |-> (rd.plugin = "true")]

\* plugin_activation_changed
PluginActivationChanged(rd) ==
    LET a == PluginAvailable(rd)
    IN  IF ~a.ok THEN [out |-> <<>>, ok |-> FALSE]
        ELSE IF a.some
             THEN [out |-> <<Own("PluginActivated", IF a.value THEN "true" ELSE "false")>>,
                   ok |-> TRUE]
             ELSE [out |-> <<>>, ok |-> TRUE]

----------------------------------------------------------------------------
(* filesystem.rs: what the update_* functions make of the text of a file *)

FileNames == {"metadata", "playback", "volume", "plugin"}

\* the lines a file can have: numbers with and without blanks around them,
\* playback words, availability words, an empty line, anything else
Tokens ==
    [metadata |-> {"a", "7"},
     playback |-> {"playing", " paused ", "loading", "junk", "7", " 7 ", ""},
     volume |-> {"7", " 7 ", "x", ""},
     plugin |-> {"true", "false", "x", ""}]

RECURSIVE LinesUpTo(_, _)
LinesUpTo(tokens, n) ==
    IF n = 0 THEN {<<>>}
    ELSE LET S == LinesUpTo(tokens, n - 1)
         IN  S \cup {Append(l, t) : l \in {x \in S : Len(x) = n - 1}, t \in tokens}

\* a text is the lines str::lines gives for it, and whether it ends with a
\* line break; the text without a line is the empty one
Texts(name) ==
    {t \in [lines : LinesUpTo(Tokens[name], IF name = "metadata" THEN MaxLines + 3
                                            ELSE MaxLines),
            nl : BOOLEAN] :
        /\ t.lines = <<>> => ~t.nl
        /\ (t.lines # <<>> /\ ~t.nl) => t.lines[Len(t.lines)] # ""}

\* String::is_empty
IsEmpty(text) == text.lines = <<>>

\* str::trim on a line
Trim(t) ==
    CASE t = " paused " -> "paused"
      [] t = " 7 " -> "7"
      [] OTHER -> t

\* str::parse to u64 or f64: no blanks are allowed
IsNumber(t) == t = "7"

\* str::trim on a text: the empty lines at both ends go
RECURSIVE TrimLines(_)
TrimLines(lines) ==
    IF lines = <<>> THEN <<>>
    ELSE IF Trim(Head(lines)) = "" THEN TrimLines(Tail(lines))
    ELSE IF Trim(lines[Len(lines)]) = "" THEN TrimLines(SubSeq(lines, 1, Len(lines) - 1))
    ELSE lines

\* update_metadata up to the send: five lines, the fifth a duration
ReadMetadata(text) ==
    IF IsEmpty(text) THEN ""
    ELSE IF Len(text.lines) # 5 THEN "bad"
    ELSE IF ~IsNumber(text.lines[5]) THEN "bad"
    ELSE "m1"

\* any word is taken for a playback state
ReadPlayback_AnyWord(text) ==
    IF IsEmpty(text) THEN ""
    ELSE IF Len(text.lines) # 2 THEN "bad"
    ELSE IF ~IsNumber(text.lines[2]) THEN "bad"
    ELSE IF Trim(text.lines[1]) \in PlaybackStates THEN Trim(text.lines[1])
    ELSE "playing"

\* update_playback up to the send: two lines, the progress is parsed first,
\* then the word is matched
ReadPlayback(text) ==
    IF IsEmpty(text) THEN ""
    ELSE IF Len(text.lines) # 2 THEN "bad"
    ELSE IF ~IsNumber(text.lines[2]) THEN "bad"
    ELSE IF Trim(text.lines[1]) \in PlaybackStates THEN Trim(text.lines[1])
    ELSE IF Trim(text.lines[1]) = "loading" THEN "loading"
    ELSE "bad"

\* update_volume up to the send: the trimmed text is a number
ReadVolume(text) ==
    IF IsEmpty(text) THEN ""
    ELSE IF Len(TrimLines(text.lines)) # 1 THEN "bad"
    ELSE IF IsNumber(Trim(TrimLines(text.lines)[1])) THEN "v1"
    ELSE "bad"

\* plugin_available up to the result: the whole text is `true` or `false`
ReadPlugin(text) ==
    IF IsEmpty(text) THEN ""
    ELSE IF Len(text.lines) = 1 /\ ~text.nl /\ text.lines[1] \in {"true", "false"}
         THEN text.lines[1]
    ELSE "bad"

\* what the function for a file sends and returns, given the file's text
UpdateFrom(name, text) ==
    CASE name = "metadata" -> UpdateMetadata([metadata |-> ReadMetadata(text)])
      [] name = "playback" -> UpdatePlayback([playback |-> ReadPlayback(text)])
      [] name = "volume" -> UpdateVolume([volume |-> ReadVolume(text)])
      [] name = "plugin" -> PluginActivationChanged([plugin |-> ReadPlugin(text)])

\* no file has been read
NoFile == [name |-> "none", text |-> [lines |-> <<>>, nl |-> FALSE], out |-> <<>>, ok |-> TRUE]

----------------------------------------------------------------------------
(* messages.rs: Command::handle *)

Handled(r, out, attached) ==
    [ls |-> r.ls, calls |-> r.calls, ok |-> r.ok,
     out |-> IF r.ok THEN out ELSE <<>>, attached |-> attached]

Sent(ls, s, attached) ==
    [ls |-> ls, calls |-> <<>>, ok |-> s.ok, out |-> s.out, attached |-> attached]

\* the request is carried out whatever the registry says of itself
AttachedArm_NoGuard(ls, arg, attached, fail) ==
    IF arg = "true"
        THEN Handled(ListAttach(ls, fail, "cmd", 1, <<>>), <<Own("Update", "")>>, attached)
        ELSE Handled(ListDetach(ls, fail, "cmd", 1, <<>>), <<>>, attached)

\* the refresh is requested whether the attach succeeded or not
AttachedArm_AlwaysRefresh(ls, arg, attached, fail) ==
    IF arg = "true" /\ ~attached
        THEN [Handled(ListAttach(ls, fail, "cmd", 1, <<>>), <<>>, attached)
                  EXCEPT !.out = <<Own("Update", "")>>]
    ELSE IF arg = "false" /\ attached
        THEN Handled(ListDetach(ls, fail, "cmd", 1, <<>>), <<>>, attached)
    ELSE Handled(Skip(ls), <<>>, attached)

\* the arms for Command::Attached
AttachedArm(ls, arg, attached, fail) ==
    IF arg = "true" /\ ~attached
        THEN Handled(ListAttach(ls, fail, "cmd", 1, <<>>), <<Own("Update", "")>>, attached)
    ELSE IF arg = "false" /\ attached
        THEN Handled(ListDetach(ls, fail, "cmd", 1, <<>>), <<>>, attached)
    ELSE Handled(Skip(ls), <<>>, attached)

\* detach_on_stop is not looked at
PlaybackArm_NoPolicy(ls, arg, attached, cfg, fail, rd) ==
    Handled(ListenerPlayback(ls, arg, TRUE, fail, rd, "cmd"),
            IF arg = "stopped" THEN <<Own("Attached", "false")>>
                               ELSE <<Own("Attached", "true")>>,
            attached)

\* a refresh is requested after the state has been handed on
PlaybackArm_AsksRefresh(ls, arg, attached, cfg, fail, rd) ==
    Handled(ListenerPlayback(ls, arg, cfg.detach_on_stop, fail, rd, "cmd"),
            <<Own("Update", "")>>,
            attached)

\* the state is handed on and nothing else is done
PlaybackArm_ForwardOnly(ls, arg, attached, cfg, fail, rd) ==
    Handled(ListenerPlayback(ls, arg, FALSE, fail, rd, "cmd"), <<>>, attached)

\* the arm for Command::Playback
PlaybackArm(ls, arg, attached, cfg, fail, rd) ==
    Handled(ListenerPlayback(ls, arg, cfg.detach_on_stop, fail, rd, "cmd"),
            IF cfg.detach_on_stop
                THEN IF arg = "stopped" THEN <<Own("Attached", "false")>>
                                        ELSE <<Own("Attached", "true")>>
                ELSE <<>>,
            attached)

\* exit_with_plugin is not looked at
PluginActivatedArm_NoExit(ls, arg, attached, cfg) ==
    Handled(Skip(ls), <<Own("Attached", arg)>>, attached)

\* the arm for Command::PluginActivated
PluginActivatedArm(ls, arg, attached, cfg) ==
    Handled(Skip(ls),
            IF arg = "false" /\ cfg.exit_with_plugin
                THEN <<Own("Exit", "")>>
                ELSE <<Own("Attached", arg)>>,
            attached)

\* Command::handle; eventOk is the outcome of media_controls::handle_event
Handle(c, ls, cfg, fail, rd, eventOk) ==
    LET attached == ListAttached(ls)
    IN  CASE c.type = "Exit" -> Handled(Skip(ls), <<>>, attached)
          [] c.type = "Metadata" ->
                Handled(ListForward(ls, "metadata", c.arg, fail, "cmd", 1, <<>>), <<>>, attached)
          [] c.type = "Playback" -> PlaybackArm(ls, c.arg, attached, cfg, fail, rd)
          [] c.type = "Volume" ->
                Handled(ListForward(ls, "volume", c.arg, fail, "cmd", 1, <<>>), <<>>, attached)
          [] c.type = "Attached" -> AttachedArm(ls, c.arg, attached, fail)
          [] c.type = "PluginActivated" -> PluginActivatedArm(ls, c.arg, attached, cfg)
          [] c.type = "Update" -> Sent(ls, Update(rd), attached)
          [] c.type = "UpdateMetadata" -> Sent(ls, UpdateMetadata(rd), attached)
          [] c.type = "UpdatePlayback" -> Sent(ls, UpdatePlayback(rd), attached)
          [] c.type = "UpdateVolume" -> Sent(ls, UpdateVolume(rd), attached)
          [] c.type = "UpdatePluginActivation" -> Sent(ls, PluginActivationChanged(rd), attached)
          [] c.type = "MediaControlEvent" ->
                Handled(Done(ls, <<>>, eventOk), <<>>, attached)

\* what a turn of the loop has to choose: the member call that fails, what the
\* files hold when they are read, and whether running the media-key action
\* works.  A failing call, a failing action and a file that is empty, loading
\* or malformed are the faults of a behaviour.
FilesRead(c, ls, cfg) ==
    IF c.type = "Update" THEN {"metadata", "playback", "volume"}
    ELSE IF c.type = "UpdateMetadata" THEN {"metadata"}
    ELSE IF c.type = "UpdatePlayback" THEN {"playback"}
    ELSE IF c.type = "UpdateVolume" THEN {"volume"}
    ELSE IF c.type = "UpdatePluginActivation" THEN {"plugin"}
    ELSE IF c.type = "Playback" /\ c.arg = "playing" /\ cfg.detach_on_stop
            /\ ~ListAttached(ls)
        THEN {"metadata", "playback", "volume"}
    ELSE {}

WellFormed ==
    [metadata |-> MetadataValues, playback |-> PlaybackStates,
     volume |-> VolumeValues, plugin |-> {"true", "false"}]

FaultsIn(rd, fail, eventOk) ==
    Cardinality({f \in DOMAIN rd : rd[f] # "" /\ rd[f] \notin WellFormed[f]})
    + (IF fail = NoFail THEN 0 ELSE 1)
    + (IF eventOk THEN 0 ELSE 1)

FailsFor(c, ls) ==
    IF c.type \in {"Metadata", "Playback", "Volume", "Attached"}
        THEN FailChoices(ls) ELSE {NoFail}

\* a file that is not read in this turn is left out as ""; one that is read
\* and is empty is written "empty"
ReadsFor(c, ls, cfg) ==
    LET fs == FilesRead(c, ls, cfg)
        of(f, content) == IF f \in fs THEN (content \ {""}) \cup {"empty"} ELSE {""}
    IN  [metadata : of("metadata", MetadataFile), playback : of("playback", PlaybackFile),
         volume : of("volume", VolumeFile), plugin : of("plugin", PluginFile)]

EventOutcomes(c) == IF c.type = "MediaControlEvent" THEN BOOLEAN ELSE {TRUE}

\* the content of the files as the code sees it
Content(rd) == [f \in DOMAIN rd |-> IF rd[f] = "empty" THEN "" ELSE rd[f]]

----------------------------------------------------------------------------
(* The record of a turn of the loop, and of the refresh that follows an attach *)

Turn(c, before, h) ==
    [type |-> c.type, arg |-> c.arg, src |-> c.src, n |-> c.n, rid |-> c.rid,
     before |-> before, attached |-> h.attached, calls |-> h.calls,
     ok |-> h.ok, out |-> h.out, ctx |-> "dispatcher"]

NoTurn ==
    [type |-> "none", arg |-> "", src |-> "self", n |-> 0, rid |-> 0,
     before |-> <<>>, attached |-> FALSE, calls |-> <<>>, ok |-> TRUE, out |-> <<>>,
     ctx |-> "dispatcher"]

Blank(ls) == [i \in 1 .. Len(ls) |-> <<>>]

Idle == [phase |-> "idle", watch |-> {}, want |-> <<>>, got |-> <<>>,
         expect |-> 0, kids |-> 0]

Tag(out, rid) == [i \in 1 .. Len(out) |-> [out[i] EXCEPT !.rid = rid]]

\* the state updates member m was handed by the fan-out of one command
Forwarded(calls, m) ==
    LET sel == SelectSeq(calls, LAMBDA x :
                   x.m = m /\ x.via = "cmd"
                   /\ x.op \in {"metadata", "playback_inner", "volume"})
    IN  [i \in 1 .. Len(sel) |-> <<sel[i].op, sel[i].arg>>]

\* the source state (M, P, V) a refresh read, as the calls that deliver it
Wanted(rd) ==
    IF rd.metadata \in MetadataValues /\ rd.playback \in PlaybackStates
       /\ rd.volume \in VolumeValues
    THEN << <<"metadata", rd.metadata>>, <<"playback_inner", rd.playback>>,
            <<"volume", rd.volume>> >>
    ELSE <<>>

\* an attach that sends its Update starts a refresh; the first one is followed
Follow(c, ls, h, rd) ==
    IF c.type = "Attached" /\ h.out # <<>> /\ mon.phase = "idle"
        THEN [phase |-> "sent", watch |-> {m \in 1 .. Len(ls) : ~ls[m]},
              want |-> <<>>, got |-> Blank(ls), expect |-> 0, kids |-> 0]
    ELSE IF c.type = "Update" /\ c.rid = 1
        THEN [mon EXCEPT !.phase = IF h.out = <<>> THEN "done" ELSE "read",
                         !.want = Wanted(rd), !.expect = Len(h.out)]
    ELSE IF c.type \in {"Metadata", "Playback", "Volume"} /\ c.rid = 1
        THEN [mon EXCEPT !.phase = IF mon.kids + 1 = mon.expect THEN "done" ELSE "read",
                         !.kids = mon.kids + 1,
                         !.got = [m \in 1 .. Len(ls) |-> mon.got[m] \o Forwarded(h.calls, m)]]
    ELSE mon

\* the commands of the followed refresh carry rid 1, all others 0
RidOf(c) ==
    IF c.type = "Attached" THEN (IF mon.phase = "idle" THEN 1 ELSE 0)
    ELSE IF c.type = "Update" THEN c.rid
    ELSE 0

----------------------------------------------------------------------------
(* The listeners: listener/media_controls.rs, listener/rpc.rs and the
   earlier media_controls.rs *)

Kinds == {"controls", "legacy", "rpc"}

\* config.rpc.service
Services == {"Litterbox", "Imgur"}

\* a call to the backend (souvlaki's MediaControls, the Discord client), and
\* the value of the listener's flag when it was made
Back(call, at) == [call |-> call, at |-> at]

\* what a method leaves behind: the flag, whether the cover cache holds an
\* image, the method of the lifecycle that ran, and how it returned
Ret(attached, cached, op, res, err, backend) ==
    [attached |-> attached, cached |-> cached, op |-> op, res |-> res, err |-> err,
     backend |-> backend]

\* what can go wrong in a call: a backend call, the refresh after an attach
\* (or the playback state it reads), an upload, the deletion of an upload
Outcomes ==
    [backend : BOOLEAN, update : {"err"} \cup PlaybackStates, upload : BOOLEAN,
     delete : BOOLEAN]

\* listener/media_controls.rs, Controls::attach
ControlsAttach(s, f) ==
    IF s.attached
    THEN Ret(s.attached, s.cached, "attach", "panic",
             "can only attach when not already attached", <<>>)
    ELSE IF ~f.backend
    THEN Ret(s.attached, s.cached, "attach", "err", "System", <<Back("attach", s.attached)>>)
    ELSE Ret(TRUE, s.cached, "attach", "ok", "", <<Back("attach", s.attached)>>)

\* listener/media_controls.rs, Controls::detach
ControlsDetach(s, f) ==
    IF ~s.attached
    THEN Ret(s.attached, s.cached, "detach", "panic", "can only detach when attached", <<>>)
    ELSE IF ~f.backend
    THEN Ret(s.attached, s.cached, "detach", "err", "System", <<Back("detach", s.attached)>>)
    ELSE Ret(FALSE, s.cached, "detach", "ok", "", <<Back("detach", s.attached)>>)

\* Controls::metadata, Controls::volume, Controls::playback
ControlsSet(s, what, f) ==
    IF s.attached
    THEN IF f.backend
         THEN Ret(s.attached, s.cached, what, "ok", "", <<Back(what, s.attached)>>)
         ELSE Ret(s.attached, s.cached, what, "err", "System", <<Back(what, s.attached)>>)
    ELSE Ret(s.attached, s.cached, what, "ok", "", <<>>)

\* a command that the listener lets pass
Ignored(s) == Ret(s.attached, s.cached, "none", "ok", "", <<>>)

\* Controls::handle without the guards on Command::Attached
ControlsHandle_NoGuard(s, cmd, f) ==
    CASE cmd.type = "Metadata" -> ControlsSet(s, "metadata", f)
      [] cmd.type = "Playback" -> ControlsSet(s, "playback", f)
      [] cmd.type = "Volume" -> ControlsSet(s, "volume", f)
      [] cmd.type = "Attached" /\ cmd.arg = "true" -> ControlsAttach(s, f)
      [] cmd.type = "Attached" /\ cmd.arg = "false" -> ControlsDetach(s, f)
      [] OTHER -> Ignored(s)

\* listener/media_controls.rs, Controls::handle
ControlsHandle(s, cmd, f) ==
    CASE cmd.type = "Metadata" -> ControlsSet(s, "metadata", f)
      [] cmd.type = "Playback" -> ControlsSet(s, "playback", f)
      [] cmd.type = "Volume" -> ControlsSet(s, "volume", f)
      [] cmd.type = "Attached" /\ cmd.arg = "true" /\ ~s.attached -> ControlsAttach(s, f)
      [] cmd.type = "Attached" /\ cmd.arg = "false" /\ s.attached -> ControlsDetach(s, f)
      [] OTHER -> Ignored(s)

\* media_controls.rs, Controls::detach
LegacyDetach(s, f) ==
    IF ~s.attached
    THEN Ret(s.attached, s.cached, "detach", "err", "AlreadyDetached", <<>>)
    ELSE IF ~f.backend
    THEN Ret(s.attached, s.cached, "detach", "err", "System", <<Back("detach", s.attached)>>)
    ELSE Ret(FALSE, s.cached, "detach", "ok", "", <<Back("detach", s.attached)>>)

\* filesystem::update(self, ..) as Controls::attach calls it, the flag being
\* set: it fails, or it hands the playback state it read to
\* Controls::set_playback, which detaches on Stopped if detach_on_stop is set
LegacyUpdate(s, dos, f) ==
    IF f.update = "err"
    THEN Ret(TRUE, s.cached, "attach", "err", "update", <<>>)
    ELSE IF dos /\ f.update = "stopped"
    THEN Ret(FALSE, s.cached, "attach", "ok", "", <<Back("detach", TRUE)>>)
    ELSE Ret(TRUE, s.cached, "attach", "ok", "", <<Back("playback", TRUE)>>)

\* media_controls.rs, Controls::attach
LegacyAttach(s, dos, f) ==
    IF s.attached
    THEN Ret(s.attached, s.cached, "attach", "err", "AlreadyAttached", <<>>)
    ELSE IF ~f.backend
    THEN Ret(s.attached, s.cached, "attach", "err", "System", <<Back("attach", s.attached)>>)
    ELSE LET u == LegacyUpdate(s, dos, f)
         IN  [u EXCEPT !.backend = <<Back("attach", s.attached)>> \o @]

\* media_controls.rs, Controls::set_metadata and Controls::set_volume: the
\* metadata is handed to the backend if the flag is set, the volume always
LegacySet(s, what, f) ==
    IF what = "volume" \/ s.attached
    THEN IF f.backend
         THEN Ret(s.attached, s.cached, what, "ok", "", <<Back(what, s.attached)>>)
         ELSE Ret(s.attached, s.cached, what, "err", "System", <<Back(what, s.attached)>>)
    ELSE Ret(s.attached, s.cached, what, "ok", "", <<>>)

\* listener/rpc.rs, Rpc::attach
RpcAttach(s, f) ==
    IF ~s.attached
    THEN IF ~f.backend
         THEN Ret(s.attached, s.cached, "attach", "err", "connect",
                  <<Back("attach", s.attached)>>)
         ELSE Ret(TRUE, s.cached, "attach", "ok", "", <<Back("attach", s.attached)>>)
    ELSE Ret(s.attached, s.cached, "attach", "ok", "", <<>>)

\* UploadService::needs_deleting
NeedsDeleting(service) == service = "Imgur"

\* CoverCache::clear: the cache is drained, and the images are deleted where
\* the service wants that
Clear(s, f) == ~(NeedsDeleting(s.service) /\ s.cached /\ ~f.delete)

\* listener/rpc.rs, Rpc::detach
RpcDetach(s, f) ==
    IF s.attached
    THEN IF ~f.backend
         THEN Ret(s.attached, s.cached, "detach", "err", "close",
                  <<Back("detach", s.attached)>>)
         ELSE IF ~Clear(s, f)
         THEN Ret(FALSE, FALSE, "detach", "err", "delete", <<Back("detach", s.attached)>>)
         ELSE Ret(FALSE, FALSE, "detach", "ok", "", <<Back("detach", s.attached)>>)
    ELSE Ret(s.attached, s.cached, "detach", "ok", "", <<>>)

\* listener/rpc.rs, Rpc::metadata: a cover that is a file is uploaded unless
\* the cache has it, then the activity is set
RpcMetadata(s, cover, f) ==
    IF ~s.attached
    THEN Ret(s.attached, s.cached, "metadata", "ok", "", <<>>)
    ELSE IF cover = "file" /\ ~s.cached /\ ~f.upload
    THEN Ret(s.attached, s.cached, "metadata", "err", "upload", <<>>)
    ELSE IF ~f.backend
    THEN Ret(s.attached, s.cached \/ cover = "file", "metadata", "err", "set_activity",
             <<Back("metadata", s.attached)>>)
    ELSE Ret(s.attached, s.cached \/ cover = "file", "metadata", "ok", "",
             <<Back("metadata", s.attached)>>)

\* listener/rpc.rs, Rpc::handle
RpcHandle(s, cmd, f) ==
    CASE cmd.type = "Metadata" -> RpcMetadata(s, cmd.arg, f)
      [] cmd.type = "Attached" /\ cmd.arg = "true" /\ ~s.attached -> RpcAttach(s, f)
      [] cmd.type = "Attached" /\ cmd.arg = "false" /\ s.attached -> RpcDetach(s, f)
      [] OTHER -> Ignored(s)

\* the commands a listener is handed
ListenerCommands ==
    { [type |-> "Attached", arg |-> "true"], [type |-> "Attached", arg |-> "false"],
      [type |-> "Metadata", arg |-> "file"], [type |-> "Metadata", arg |-> "none"],
      [type |-> "Playback", arg |-> "playing"], [type |-> "Volume", arg |-> "v1"],
      [type |-> "Exit", arg |-> ""] }

\* the methods of the lifecycle
Methods == {"attach", "detach"}

\* Controls::new, Rpc::new: a listener starts detached, its cache empty
New(kind, service) ==
    [kind |-> kind, service |-> service, attached |-> FALSE, cached |-> FALSE, n |-> 0,
     via |-> "new", cmd |-> [type |-> "new", arg |-> ""], before |-> FALSE,
     op |-> "none", res |-> "ok", err |-> "", backend |-> <<>>]

\* no listener is looked at on its own
NoMember == New("none", "")

----------------------------------------------------------------------------
(* listener/rpc.rs: Rpc and its CoverCache *)

\* the cover files the tracks name
Paths == {"a.jpg", "b.jpg"}

\* the images an upload service hands out, in the order of their upload
Images == 1 .. MaxImages

\* a Url: its scheme, its host, its path, and for the url of an uploaded
\* image which upload it is
Url(scheme, host, path, id) == [scheme |-> scheme, host |-> host, path |-> path, id |-> id]

NoUrl == Url("", "", "", 0)

\* UploadedFile::url of a fresh upload
Public(id) == Url("https", "uploads", "", id)

\* MediaMetadata.cover_url: None, text that Url::parse rejects, or a url: a
\* local file, a file on another host, an image on the web
NoCover == [some |-> FALSE, parses |-> FALSE, url |-> NoUrl]

CoverUrls ==
    {NoCover, [some |-> TRUE, parses |-> FALSE, url |-> NoUrl]}
    \cup { [some |-> TRUE, parses |-> TRUE, url |-> Url("file", h, p, 0)] :
              h \in {"", "nas"}, p \in Paths }
    \cup { [some |-> TRUE, parses |-> TRUE, url |-> Url("https", "cdn", p, 0)] : p \in Paths }

\* Box<dyn UploadedFile>: which upload it is, and whether url() still gives
\* Some (a LitterboxImage gives None once it is too old); id 0 is no entry
Image(id, valid) == [id |-> id, valid |-> valid]

NoImage == Image(0, FALSE)

\* what can go wrong around the cache: the upload, the Discord client, and
\* the images whose deletion fails
CacheOutcomes == [upload : BOOLEAN, backend : BOOLEAN, failing : SUBSET Images]

\* what a method of CoverCache returns and leaves behind: the map, the number
\* of uploads made, the Result, and the calls made to the upload service
CacheRet(cached, made, ok, url, uploaded, deleted) ==
    [cached |-> cached, made |-> made, ok |-> ok, url |-> url, uploaded |-> uploaded,
     deleted |-> deleted]

NoneDeleted == [i \in Images |-> 0]

\* the map is never consulted
CacheGet_Miss(c, p) == [some |-> FALSE, url |-> NoUrl]

\* CoverCache::get: `self.cached.get(file)?.url()?`
CacheGet(c, p) ==
    IF c.cached[p].id # 0 /\ c.cached[p].valid
    THEN [some |-> TRUE, url |-> Public(c.cached[p].id)]
    ELSE [some |-> FALSE, url |-> NoUrl]

\* CoverCache::insert
CacheInsert(c, p, image) == [c.cached EXCEPT ![p] = image]

\* CoverCache::upload
CacheUpload(c, p, f) ==
    IF CacheGet(c, p).some
    THEN CacheRet(c.cached, c.made, TRUE, CacheGet(c, p).url, <<>>, NoneDeleted)
    ELSE IF ~f.upload
    THEN CacheRet(c.cached, c.made, FALSE, NoUrl, <<p>>, NoneDeleted)
    ELSE CacheRet(CacheInsert(c, p, Image(c.made + 1, TRUE)), c.made + 1, TRUE,
                  Public(c.made + 1), <<p>>, NoneDeleted)

\* Url::to_file_path: a file url that names a host is no path
ToFilePath(url) == [ok |-> url.host = "", path |-> url.path]

\* CoverCache::resolve
CacheResolve(c, url, f) ==
    IF url.scheme = "file"
    THEN IF ToFilePath(url).ok
         THEN CacheUpload(c, ToFilePath(url).path, f)
         ELSE CacheRet(c.cached, c.made, FALSE, NoUrl, <<>>, NoneDeleted)
    ELSE CacheRet(c.cached, c.made, TRUE, url, <<>>, NoneDeleted)

\* CoverCache::resolve_str
CacheResolveStr(c, text, f) ==
    IF text.parses
    THEN CacheResolve(c, text.url, f)
    ELSE CacheRet(c.cached, c.made, FALSE, NoUrl, <<>>, NoneDeleted)

\* the images the map holds
Held(cached) == { cached[p].id : p \in Paths } \ {0}

\* an image whose deletion failed stays in the map
CacheClear_KeepsFailed(c, f) ==
    IF NeedsDeleting(c.service)
    THEN CacheRet([p \in Paths |-> IF c.cached[p].id \in f.failing THEN c.cached[p] ELSE NoImage],
                  c.made, Held(c.cached) \cap f.failing = {},
                  NoUrl, <<>>, [i \in Images |-> IF i \in Held(c.cached) THEN 1 ELSE 0])
    ELSE CacheRet([p \in Paths |-> NoImage], c.made, TRUE, NoUrl, <<>>, NoneDeleted)

\* CoverCache::clear: the map is drained; where the service wants it every
\* image is deleted, all deletions are awaited, and one that failed fails clear
CacheClear(c, f) ==
    IF NeedsDeleting(c.service)
    THEN CacheRet([p \in Paths |-> NoImage], c.made, Held(c.cached) \cap f.failing = {},
                  NoUrl, <<>>, [i \in Images |-> IF i \in Held(c.cached) THEN 1 ELSE 0])
    ELSE CacheRet([p \in Paths |-> NoImage], c.made, TRUE, NoUrl, <<>>, NoneDeleted)

\* Rpc::new: detached, CoverCache::with(&config.rpc.service); nothing called yet
NewRpc(service) ==
    [service |-> service, attached |-> FALSE, cached |-> [p \in Paths |-> NoImage],
     made |-> 0, ups |-> [p \in Paths |-> 0], aged |-> [p \in Paths |-> 0],
     op |-> "new", arg |-> NoCover, res |-> "ok", out |-> NoUrl, uploaded |-> <<>>,
     deleted |-> NoneDeleted]

\* no Rpc is looked at on its own
NoCache == NewRpc("")

----------------------------------------------------------------------------
(* listener/media_controls.rs: handle_event, Seek and SeekBy *)

I32Max == 2147483647

I32Min == -I32Max - 1

\* a u128 in two limbs, hi * 65536 + lo
Wide(hi, lo) == [hi |-> hi, lo |-> lo]

\* std::time::Duration: whole seconds and the nanoseconds of the last one
Duration(secs, nanos) == [secs |-> secs, nanos |-> nanos]

\* Duration::as_millis: secs * 1000 + nanos / 1_000_000, as a u128
AsMillis(d) ==
    LET low == (d.secs % 65536) * 1000 + d.nanos \div 1000000
    IN  Wide((d.secs \div 65536) * 1000 + low \div 65536, low % 65536)

\* `as i32`: the low 32 bits, whatever the value
TryIntoI32_Casts(w) ==
    LET low == w.hi % 65536
    IN  [ok |-> TRUE,
         value |-> (IF low < 32768 THEN low ELSE low - 65536) * 65536 + w.lo]

\* i32::try_from(u128): an error above i32::MAX
TryIntoI32(w) ==
    IF w.hi < 32768
    THEN [ok |-> TRUE, value |-> w.hi * 65536 + w.lo]
    ELSE [ok |-> FALSE, value |-> 0]

\* the negation of an i32: only i32::MIN has none
Neg(x) ==
    IF x = I32Min
    THEN [value |-> x, overflow |-> TRUE]
    ELSE [value |-> 0 - x, overflow |-> FALSE]

SeekDirections == {"Forward", "Backward"}

\* Action::Seek { milis }; kind "none" is no action
Seek(milis) == [kind |-> "seek", milis |-> milis]

NoAction == [kind |-> "none", milis |-> 0]

\* directioned_duration_to_seek
DirectionedDurationToSeek(direction, duration) ==
    LET converted == TryIntoI32(AsMillis(duration))
    IN  IF ~converted.ok
        THEN [ok |-> FALSE, action |-> NoAction, overflow |-> FALSE]
        ELSE IF direction = "Forward"
        THEN [ok |-> TRUE, action |-> Seek(converted.value), overflow |-> FALSE]
        ELSE [ok |-> TRUE, action |-> Seek(Neg(converted.value).value),
              overflow |-> Neg(converted.value).overflow]

\* the decimal digits of a natural number, as `{}` writes them
RECURSIVE Decimal(_)
Decimal(n) == IF n < 10 THEN <<n>> ELSE Append(Decimal(n \div 10), n % 10)

\* impl Display for Action, Seek: "seek {milis}"; the number is given as its
\* sign and the digits of its magnitude
Display(action) ==
    IF action.milis = I32Min
    THEN <<"seek", "-">> \o Append(Decimal(I32Max \div 10), 8)
    ELSE IF action.milis < 0
    THEN <<"seek", "-">> \o Decimal(0 - action.milis)
    ELSE <<"seek">> \o Decimal(action.milis)

\* the durations looked at: around zero, around i32::MAX milliseconds and
\* around u32::MAX milliseconds, each with the nanoseconds at which a
\* millisecond or the limit is crossed
SeekSecs ==
    (0 .. MaxNear) \cup (2147483 - MaxNear .. 2147483 + MaxNear)
                   \cup (4294967 - MaxNear .. 4294967 + MaxNear)

SeekNanos ==
    {0, 999999, 1000000, 295999999, 296000000, 646999999, 647000000, 647999999,
     648000000, 999999999}

Durations == { Duration(s, n) : s \in SeekSecs, n \in SeekNanos }

\* MediaControlEvent::Seek takes config.media_controls.seek_amount,
\* SeekBy the duration of the event
SeekEvents == {"Seek", "SeekBy"}

\* a seek event that has arrived
Arrived(event, direction, duration) ==
    [event |-> event, direction |-> direction, duration |-> duration, res |-> "new",
     action |-> NoAction, overflow |-> FALSE, written |-> <<>>]

\* no event is looked at on its own
NoSeek == Arrived("none", "Forward", Duration(0, 0))

----------------------------------------------------------------------------
(* daemon.rs and main.rs: run *)

\* the pid file: absent, or holding the pid of a daemon that is running, or
\* the pid of this daemon
PidFile == {"none", "recorded", "own"}

\* daemon::end(&config, false), as run calls it to replace a daemon: without a
\* pid file nothing is done; otherwise `kill` is spawned and the file removed
End(pid, killed) ==
    IF pid = "none" THEN [pid |-> pid, failed |-> ""]
    ELSE IF ~killed THEN [pid |-> pid, failed |-> "replace"]
    ELSE [pid |-> "none", failed |-> ""]

\* Daemonize::new().pid_file(..).start(), if the daemon is to detach
Daemonized(detach, pid) == IF detach THEN "own" ELSE pid

\* daemon.rs, run
DaemonRun(force, replace, detach, pid, killed) ==
    LET e == IF replace THEN End(pid, killed) ELSE [pid |-> pid, failed |-> ""]
    IN  IF e.failed # "" THEN e
        ELSE IF force /\ e.pid # "none" THEN [pid |-> e.pid, failed |-> "already running"]
        ELSE [pid |-> Daemonized(detach, e.pid), failed |-> ""]

\* main.rs, run: with force, daemon::create is called; otherwise daemon::run,
\* which is taken to be the run of daemon.rs with force unset and the
\* replacing done
MainRun(force, replace, detach, pid, killed) ==
    LET e == IF replace THEN End(pid, killed) ELSE [pid |-> pid, failed |-> ""]
    IN  IF e.failed # "" THEN e
        ELSE IF force THEN [pid |-> e.pid, failed |-> ""]
        ELSE DaemonRun(FALSE, FALSE, detach, e.pid, killed)

\* run has not been called
NoCli ==
    [force |-> FALSE, replace |-> FALSE, detach |-> FALSE, found |-> "none",
     pid |-> "none", by |-> "none", failed |-> ""]

----------------------------------------------------------------------------
(* The bus *)

\* what does not depend on the producers: List::new and List::add give a
\* registry of detached members; if the plugin is available the daemon asks
\* for an attach right after the loop is spawned.  A behaviour starts before
\* that attach, or once it and its refresh have been handled.
Start ==
    /\ \E n \in 0 .. MaxMembers, a \in BOOLEAN : listeners = [i \in 1 .. n |-> a]
    /\ queue = <<>>
    /\ outbox = <<>>
    /\ done = FALSE
    /\ config \in [detach_on_stop : BOOLEAN, exit_with_plugin : BOOLEAN]
    /\ ticket = 0
    /\ seen = [p \in Producers |-> 0]
    /\ last = NoTurn
    /\ mon = Idle
    /\ logged = 0
    /\ daemon = "listening"
    /\ member = NoMember
    /\ file = NoFile
    /\ cli = NoCli
    /\ seek = NoSeek
    /\ cover_cache = NoCache
    /\ hung = {}

\* every producer is active, for a few commands
Init ==
    /\ Start
    /\ menu = ProducerCommands
    /\ limit = MaxExternal
    /\ spare = MaxFaults

\* a refresh is requested again and again (MessageSender::blocking_update),
\* and then Ctrl-C; nothing fails and every file is well formed
InitBurst ==
    /\ Start
    /\ menu = {<<"tray", "Update", "">>, <<"signal", "Exit", "">>}
    /\ limit = MaxBurst
    /\ spare = 0

\* MessageSender::blocking_send and the senders built on it, called by a producer
Submit(pc) ==
    /\ ~done
    /\ pc \in menu
    /\ ticket < limit
    /\ Len(queue) < Capacity
    /\ queue' = Append(queue, Cmd(pc[2], pc[3], pc[1], ticket + 1, 0))
    /\ ticket' = ticket + 1
    /\ UNCHANGED <<listeners, outbox, done, config, seen, last, mon, spare, logged, menu, limit, daemon, member, file, cli, hung, cover_cache, seek>>

\* MessageSender::send from inside Command::handle: it completes when the
\* channel has room
SendNext ==
    /\ ~done
    /\ outbox # <<>>
    /\ Len(queue) < Capacity
    /\ queue' = Append(queue, Head(outbox))
    /\ outbox' = Tail(outbox)
    /\ UNCHANGED <<listeners, done, config, ticket, seen, last, mon, spare, logged, menu, limit, daemon, member, file, cli, hung, cover_cache, seek>>

\* the newest command is taken, not the oldest
Recv_Newest(q) == [cmd |-> q[Len(q)], rest |-> SubSeq(q, 1, Len(q) - 1)]

\* the command is handed out and left in the channel
Recv_Peek(q) == [cmd |-> Head(q), rest |-> q]

\* rx.recv()
Recv(q) == [cmd |-> Head(q), rest |-> Tail(q)]

\* an error of Command::handle ends the loop
Continues_Propagates(ok) == ok

\* the loop after Command::handle has returned: unwrap_or_else logs an error,
\* and the loop goes on either way
Continues(ok) == TRUE

\* error!("failed to handle command: {err:?}")
Logged(ok) == IF ok THEN logged ELSE logged + 1

\* the loop goes on after Exit
Breaks_Never(c) == FALSE

\* if let Command::Exit = command { break; }
Breaks(c) == c.type = "Exit"

Seen(c) == IF c.src \in Producers THEN [seen EXCEPT ![c.src] = c.n] ELSE seen

\* a turn of listen_until_exit that takes Command::Exit
DispatchExit ==
    /\ ~done
    /\ outbox = <<>>
    /\ queue # <<>>
    /\ LET r == Recv(queue)
           c == r.cmd
       IN  /\ c.type = "Exit"
           /\ queue' = r.rest
           /\ done' = Breaks(c)
           /\ seen' = Seen(c)
           /\ last' = Turn(c, listeners, Handled(Skip(listeners), <<>>, ListAttached(listeners)))
    /\ UNCHANGED <<listeners, outbox, config, ticket, mon, spare, logged, menu, limit, daemon, member, file, cli, hung, cover_cache, seek>>

\* a turn of listen_until_exit that takes any other command
DispatchCommand ==
    /\ ~done
    /\ outbox = <<>>
    /\ queue # <<>>
    /\ LET r == Recv(queue)
           c == r.cmd
       IN  /\ c.type # "Exit"
           /\ \E fail \in FailsFor(c, listeners), rd \in ReadsFor(c, listeners, config),
                 eventOk \in EventOutcomes(c) :
                /\ FaultsIn(rd, fail, eventOk) <= spare
                /\ \E h \in {Handle(c, listeners, config, fail, Content(rd), eventOk)} :
                    /\ spare' = spare - FaultsIn(rd, fail, eventOk)
                    /\ listeners' = h.ls
                    /\ outbox' = Tag(h.out, RidOf(c))
                    /\ last' = Turn(c, listeners, h)
                    /\ mon' = Follow(c, listeners, h, Content(rd))
                    /\ done' = ~Continues(h.ok)
           /\ queue' = r.rest
           /\ seen' = Seen(c)
    /\ logged' = Logged(last'.ok)
    /\ UNCHANGED <<config, ticket, menu, limit, daemon, member, file, cli, hung, cover_cache, seek>>

Next ==
    \/ \E pc \in ProducerCommands : Submit(pc)
    \/ SendNext
    \/ DispatchExit
    \/ DispatchCommand

Spec == Init /\ [][Next]_vars

SpecBurst == InitBurst /\ [][Next]_vars

----------------------------------------------------------------------------
(* tray.rs: the menu items that work on the registry *)

TrayItems == {"Attach", "Detach", "Refresh"}

\* what a menu item's closure does with the registry it has locked
TrayCall(item, ls, cfg, rd) ==
    CASE item = "Attach" -> AttachAndUpdate(ls, cfg.detach_on_stop, NoFail, rd)
      [] item = "Detach" -> ListDetach(ls, NoFail, "tray", 1, <<>>)
      [] item = "Refresh" -> UpdateListener(ls, cfg.detach_on_stop, NoFail, rd)

\* a menu item is activated: its closure runs on the tray's thread
TrayItem(item) ==
    /\ ~done
    /\ ticket < limit
    /\ \E rd \in [metadata : MetadataValues, playback : PlaybackStates,
                   volume : VolumeValues, plugin : {""}] :
          \E r \in {TrayCall(item, listeners, config, rd)} :
          LET c == Cmd(item, "", "tray", ticket + 1, 0)
          IN  /\ listeners' = r.ls
              /\ last' = [Turn(c, listeners, Handled(r, <<>>, ListAttached(listeners)))
                              EXCEPT !.ctx = "tray"]
    /\ ticket' = ticket + 1
    /\ UNCHANGED <<queue, outbox, done, config, seen, mon, spare, logged, menu, limit, daemon, member, file, cli, hung, cover_cache, seek>>

\* the tray's Quit item and the watcher are the producers of commands
InitTray ==
    /\ Start
    /\ menu = {<<"tray", "Exit", "">>, <<"watcher", "UpdateVolume", "">>}
    /\ limit = MaxExternal
    /\ spare = 0

NextTray ==
    \/ Next
    \/ \E item \in TrayItems : TrayItem(item)

SpecTray == InitTray /\ [][NextTray]_vars

\* a shutdown: refresh requests and Ctrl-C; nothing fails and every file is
\* well formed
InitShutdown ==
    /\ Start
    /\ menu = {<<"tray", "Update", "">>, <<"signal", "Exit", "">>}
    /\ limit = MaxShutdown
    /\ spare = 0

\* the runtime runs the spawned dispatcher task whenever it can go on: a send
\* completes once the channel has room, and the loop takes a command once
\* Command::handle has returned and the channel is not empty
Fairness ==
    /\ WF_vars(SendNext)
    /\ WF_vars(DispatchExit)
    /\ WF_vars(DispatchCommand)

SpecShutdown == InitShutdown /\ [][Next]_vars /\ Fairness

\* every producer is active for a few commands, and the dispatcher is
\* scheduled fairly
SpecFair == Init /\ [][Next]_vars /\ Fairness

\* the plugin goes away and the playback stops while refreshes are requested:
\* the watcher reports the two files, the tray asks for refreshes; one member
\* is attached, both policies are set, nothing fails
InitTie ==
    /\ Start
    /\ listeners = <<TRUE>>
    /\ config = [detach_on_stop |-> TRUE, exit_with_plugin |-> TRUE]
    /\ menu = {<<"watcher", "UpdatePluginActivation", "">>,
               <<"watcher", "UpdatePlayback", "">>,
               <<"tray", "Update", "">>}
    /\ limit = MaxTie
    /\ spare = 0

SpecTie == InitTie /\ [][Next]_vars /\ Fairness

\* the playback changes while refreshes are requested, until Ctrl-C, with
\* detach_on_stop set; the members start attached or detached, nothing fails
InitResume ==
    /\ Start
    /\ config = [detach_on_stop |-> TRUE, exit_with_plugin |-> FALSE]
    /\ menu = {<<"watcher", "UpdatePlayback", "">>, <<"tray", "Update", "">>,
               <<"signal", "Exit", "">>}
    /\ limit = MaxResume
    /\ spare = 0

SpecResume == InitResume /\ [][Next]_vars /\ Fairness

----------------------------------------------------------------------------
(* daemon.rs: the cleanup of create, after `handle.await` *)

\* listen_until_exit owns the registry (it is moved into the spawned task):
\* it is dropped when the loop returns
RegistryDropped == done

\* the watcher lives until it is dropped
WatcherRunning == daemon = "listening"

\* the tray's thread runs until gtk::main_quit has been carried out and the
\* thread joined
TrayRunning == daemon \in {"listening", "watcher_dropped"}

\* handle.await has returned; drop(watcher)
DropWatcher ==
    /\ done
    /\ daemon = "listening"
    /\ daemon' = "watcher_dropped"
    /\ UNCHANGED <<listeners, queue, outbox, done, config, ticket, seen, last, mon, spare,
                   logged, menu, limit, member, file, cli, hung, cover_cache, seek>>

\* glib::idle_add_once(gtk::main_quit); gtk_handle.join()
QuitTray ==
    /\ daemon = "watcher_dropped"
    /\ daemon' = "tray_joined"
    /\ UNCHANGED <<listeners, queue, outbox, done, config, ticket, seen, last, mon, spare,
                   logged, menu, limit, member, file, cli, hung, cover_cache, seek>>

\* remove_pid(&config), and create returns
RemovePid ==
    /\ daemon = "tray_joined"
    /\ daemon' = "pid_removed"
    /\ UNCHANGED <<listeners, queue, outbox, done, config, ticket, seen, last, mon, spare,
                   logged, menu, limit, member, file, cli, hung, cover_cache, seek>>

NextDaemon ==
    \/ Next
    \/ DropWatcher
    \/ QuitTray
    \/ RemovePid

SpecDaemon == Init /\ [][NextDaemon]_vars

\* the producers that can still call the sender they hold: the watcher's
\* callback until the watcher is dropped, the tray's callbacks until its thread
\* is joined, the Ctrl-C handler as long as create has not returned; the
\* media keys' callback goes with the registry
Calling(p) ==
    CASE p = "watcher" -> WatcherRunning
      [] p = "tray" -> TrayRunning
      [] p = "signal" -> daemon # "pid_removed"
      [] OTHER -> ~RegistryDropped

\* MessageSender::blocking_send once listen_until_exit has returned and its
\* Messages, the receiver with it, is dropped: the send is an Err and the
\* expect panics in the producer's thread
SendClosed(pc) ==
    /\ done
    /\ pc \in menu
    /\ ticket < limit
    /\ Calling(pc[1])
    /\ pc[1] \notin hung
    /\ hung' = hung \cup {pc[1]}
    /\ ticket' = ticket + 1
    /\ UNCHANGED <<listeners, queue, outbox, done, config, seen, last, mon, spare,
                   logged, menu, limit, daemon, member, file, cli, cover_cache, seek>>

NextClosed ==
    \/ NextDaemon
    \/ \E pc \in ProducerCommands : SendClosed(pc)

SpecClosed == Init /\ [][NextClosed]_vars

----------------------------------------------------------------------------
(* One listener, handed commands and called *)

\* the listener after a call
After(r, via, cmd) ==
    [member EXCEPT !.attached = r.attached, !.cached = r.cached, !.n = @ + 1,
                   !.via = via, !.cmd = cmd, !.before = member.attached,
                   !.op = r.op, !.res = r.res, !.err = r.err, !.backend = r.backend]

\* the registry hands a command to the listener's handle
HandleCommand ==
    /\ member.kind \in {"controls", "rpc"}
    /\ member.res # "panic"
    /\ member.n < MaxCalls
    /\ \E cmd \in ListenerCommands, f \in Outcomes :
          \E r \in { IF member.kind = "controls" THEN ControlsHandle(member, cmd, f)
                     ELSE RpcHandle(member, cmd, f) } :
             member' = After(r, "handle", cmd)
    /\ UNCHANGED busVars

\* attach() or detach() is called, whatever the listener's state
CallMethod ==
    /\ member.kind \in Kinds
    /\ member.res # "panic"
    /\ member.n < MaxCalls
    /\ \E m \in Methods, f \in Outcomes :
          \E r \in { CASE member.kind = "controls" /\ m = "attach" -> ControlsAttach(member, f)
                       [] member.kind = "controls" /\ m = "detach" -> ControlsDetach(member, f)
                       [] member.kind = "legacy" /\ m = "attach" ->
                              LegacyAttach(member, config.detach_on_stop, f)
                       [] member.kind = "legacy" /\ m = "detach" -> LegacyDetach(member, f)
                       [] member.kind = "rpc" /\ m = "attach" -> RpcAttach(member, f)
                       [] member.kind = "rpc" /\ m = "detach" -> RpcDetach(member, f) } :
             member' = After(r, "call", [type |-> m, arg |-> ""])
    /\ UNCHANGED busVars

\* set_metadata() or set_volume() of the earlier Controls is called
CallSetter ==
    /\ member.kind = "legacy"
    /\ member.res # "panic"
    /\ member.n < MaxCalls
    /\ \E what \in {"metadata", "volume"}, f \in Outcomes :
          \E r \in {LegacySet(member, what, f)} :
             member' = After(r, "call", [type |-> what, arg |-> ""])
    /\ UNCHANGED busVars

\* a listener of any kind, new; the bus is left out
InitLifecycle ==
    /\ listeners = <<>>
    /\ queue = <<>>
    /\ outbox = <<>>
    /\ done = FALSE
    /\ config \in [detach_on_stop : BOOLEAN, exit_with_plugin : {FALSE}]
    /\ ticket = 0
    /\ seen = [p \in Producers |-> 0]
    /\ last = NoTurn
    /\ mon = Idle
    /\ logged = 0
    /\ daemon = "listening"
    /\ menu = {}
    /\ limit = 0
    /\ spare = 0
    /\ \E kind \in Kinds, service \in Services :
          /\ kind # "rpc" => service = "Litterbox"
          /\ member = New(kind, IF kind = "rpc" THEN service ELSE "")
    /\ file = NoFile
    /\ cli = NoCli
    /\ seek = NoSeek
    /\ cover_cache = NoCache
    /\ hung = {}

NextLifecycle ==
    \/ HandleCommand
    \/ CallMethod
    \/ CallSetter

SpecLifecycle == InitLifecycle /\ [][NextLifecycle]_vars

----------------------------------------------------------------------------
(* An Rpc on its own, with its CoverCache *)

\* everything but the Rpc that is looked at on its own
restVars == <<listeners, queue, outbox, done, config, ticket, seen, last, mon, spare, logged,
              menu, limit, daemon, member, file, cli, hung, seek>>

\* the image shown when the track has no cover
DefaultImage == Url("https", "www.getmusicbee.com", "", 0)

\* one more upload of each path that r.uploaded names, if it was stored
Counted(ups, r) ==
    [p \in Paths |-> IF r.ok /\ r.uploaded = <<p>> THEN ups[p] + 1 ELSE ups[p]]

\* Rpc::metadata is called with a cover url
CoverMetadata ==
    /\ cover_cache.service \in Services
    /\ \E u \in CoverUrls, f \in CacheOutcomes :
          \E r \in { IF ~cover_cache.attached \/ ~u.some
                     THEN CacheRet(cover_cache.cached, cover_cache.made, TRUE,
                                   IF cover_cache.attached THEN DefaultImage ELSE NoUrl,
                                   <<>>, NoneDeleted)
                     ELSE CacheResolveStr(cover_cache, u, f) } :
             /\ r.made <= MaxImages
             /\ cover_cache' =
                   [cover_cache EXCEPT
                       !.cached = r.cached, !.made = r.made,
                       !.ups = Counted(cover_cache.ups, r),
                       !.op = "metadata", !.arg = u,
                       !.res = IF ~r.ok THEN "err"
                               ELSE IF cover_cache.attached /\ ~f.backend THEN "err"
                               ELSE "ok",
                       !.out = r.url, !.uploaded = r.uploaded, !.deleted = r.deleted]
    /\ UNCHANGED restVars

\* Rpc::attach is called
CoverAttach ==
    /\ cover_cache.service \in Services
    /\ \E f \in CacheOutcomes :
          cover_cache' =
             [cover_cache EXCEPT
                 !.attached = cover_cache.attached \/ f.backend,
                 !.op = "attach", !.arg = NoCover,
                 !.res = IF cover_cache.attached \/ f.backend THEN "ok" ELSE "err",
                 !.out = NoUrl, !.uploaded = <<>>, !.deleted = NoneDeleted]
    /\ UNCHANGED restVars

\* Rpc::detach is called: close, the flag, then CoverCache::clear
CoverDetach ==
    /\ cover_cache.service \in Services
    /\ \E f \in CacheOutcomes :
          \E r \in {CacheClear(cover_cache, f)} :
             cover_cache' =
                IF ~cover_cache.attached
                THEN [cover_cache EXCEPT !.op = "detach", !.arg = NoCover, !.res = "ok",
                                         !.out = NoUrl, !.uploaded = <<>>,
                                         !.deleted = NoneDeleted]
                ELSE IF ~f.backend
                THEN [cover_cache EXCEPT !.op = "detach", !.arg = NoCover, !.res = "close",
                                         !.out = NoUrl, !.uploaded = <<>>,
                                         !.deleted = NoneDeleted]
                ELSE [cover_cache EXCEPT
                         !.attached = FALSE, !.cached = r.cached,
                         !.ups = [p \in Paths |-> 0], !.aged = [p \in Paths |-> 0],
                         !.op = "detach", !.arg = NoCover,
                         !.res = IF r.ok THEN "ok" ELSE "err",
                         !.out = NoUrl, !.uploaded = <<>>, !.deleted = r.deleted]
    /\ UNCHANGED restVars

\* Litterbox::TIMEOUT hours pass after an upload: LitterboxImage::url gives None
CoverAges ==
    /\ cover_cache.service = "Litterbox"
    /\ \E p \in Paths :
          /\ cover_cache.cached[p].id # 0
          /\ cover_cache.cached[p].valid
          /\ cover_cache' =
                [cover_cache EXCEPT
                    !.cached[p].valid = FALSE, !.aged[p] = @ + 1,
                    !.op = "ages", !.arg = NoCover, !.res = "ok", !.out = NoUrl,
                    !.uploaded = <<>>, !.deleted = NoneDeleted]
    /\ UNCHANGED restVars

\* an Rpc of either service, new; the bus is left out
InitCover ==
    /\ listeners = <<>>
    /\ queue = <<>>
    /\ outbox = <<>>
    /\ done = FALSE
    /\ config = [detach_on_stop |-> FALSE, exit_with_plugin |-> FALSE]
    /\ ticket = 0
    /\ seen = [p \in Producers |-> 0]
    /\ last = NoTurn
    /\ mon = Idle
    /\ logged = 0
    /\ daemon = "listening"
    /\ menu = {}
    /\ limit = 0
    /\ spare = 0
    /\ member = NoMember
    /\ file = NoFile
    /\ cli = NoCli
    /\ seek = NoSeek
    /\ hung = {}
    /\ \E service \in Services : cover_cache = NewRpc(service)

NextCover ==
    \/ CoverMetadata
    \/ CoverAttach
    \/ CoverDetach
    \/ CoverAges

SpecCover == InitCover /\ [][NextCover]_vars

----------------------------------------------------------------------------
(* One seek event *)

\* handle_event, Seek and SeekBy: the conversion, then Action::run writes the
\* action file unless the write fails
HandleEvent ==
    /\ seek.event \in SeekEvents
    /\ seek.res = "new"
    /\ \E write \in BOOLEAN :
          \E r \in {DirectionedDurationToSeek(seek.direction, seek.duration)} :
             seek' = [seek EXCEPT
                         !.res = IF r.ok /\ write THEN "ok" ELSE "err",
                         !.action = r.action, !.overflow = r.overflow,
                         !.written = IF r.ok /\ write THEN Display(r.action) ELSE <<>>]
    /\ UNCHANGED <<listeners, queue, outbox, done, config, ticket, seen, last, mon, spare,
                   logged, menu, limit, daemon, member, file, cli, hung, cover_cache>>

\* a seek event of either kind and direction, with any of the durations
InitSeek ==
    /\ listeners = <<>>
    /\ queue = <<>>
    /\ outbox = <<>>
    /\ done = FALSE
    /\ config = [detach_on_stop |-> FALSE, exit_with_plugin |-> FALSE]
    /\ ticket = 0
    /\ seen = [p \in Producers |-> 0]
    /\ last = NoTurn
    /\ mon = Idle
    /\ logged = 0
    /\ daemon = "listening"
    /\ menu = {}
    /\ limit = 0
    /\ spare = 0
    /\ member = NoMember
    /\ file = NoFile
    /\ cli = NoCli
    /\ hung = {}
    /\ cover_cache = NoCache
    /\ \E event \in SeekEvents, direction \in SeekDirections, duration \in Durations :
          seek = Arrived(event, direction, duration)

NextSeek == HandleEvent

SpecSeek == InitSeek /\ [][NextSeek]_vars

----------------------------------------------------------------------------
(* daemon.rs: create, up to `handle.await` *)

\* config.media_controls.enabled, config.rpc.enabled; and whether
\* Controls::new and Rpc::new (DiscordIpcClient::new) succeed
Backends == [controls : BOOLEAN, rpc : BOOLEAN]

\* the registry create builds: the listeners with a backend that are enabled,
\* each new and detached
Registry(enabled) ==
    [i \in 1 .. ((IF enabled.controls THEN 1 ELSE 0) + (IF enabled.rpc THEN 1 ELSE 0))
        |-> FALSE]

\* the texts the plugin file can have when create reads it: at most one line
StartupTexts == {t \in Texts("plugin") : Len(t.lines) <= 1}

\* an empty file counts as available
InitialAttach_UnlessFalse(a) ==
    IF a.ok /\ (~a.some \/ a.value) THEN <<Own("Attached", "true")>> ELSE <<>>

\* the attach create asks for: `plugin_available(..)?.unwrap_or(false)`
InitialAttach(a) == IF a.ok /\ a.some /\ a.value THEN <<Own("Attached", "true")>> ELSE <<>>

\* create: the listeners are constructed and added, the loop is spawned with
\* the registry, and an attach is asked for if the plugin is available.  An
\* error of Controls::new ("failed") or of plugin_available ("aborted") leaves
\* create through `?`; an error inside Rpc::new is met with `expect`
Create ==
    /\ daemon = "setup"
    /\ \E enabled \in Backends, built \in Backends, text \in StartupTexts :
          \E a \in {PluginAvailable([plugin |-> ReadPlugin(text)])} :
             IF enabled.controls /\ ~built.controls
             THEN daemon' = "failed" /\ UNCHANGED <<listeners, queue, file>>
             ELSE IF enabled.rpc /\ ~built.rpc
             THEN daemon' = "panicked" /\ UNCHANGED <<listeners, queue, file>>
             ELSE /\ daemon' = IF a.ok THEN "listening" ELSE "aborted"
                  /\ listeners' = Registry(enabled)
                  /\ queue' = InitialAttach(a)
                  /\ file' = [name |-> "plugin", text |-> text,
                              out |-> InitialAttach(a), ok |-> a.ok]
    /\ UNCHANGED <<outbox, done, config, ticket, seen, last, mon, spare, logged, menu, limit,
                   member, cli, hung, cover_cache, seek>>

\* nothing is constructed yet
InitStartup ==
    /\ listeners = <<>>
    /\ queue = <<>>
    /\ outbox = <<>>
    /\ done = FALSE
    /\ config \in [detach_on_stop : BOOLEAN, exit_with_plugin : BOOLEAN]
    /\ ticket = 0
    /\ seen = [p \in Producers |-> 0]
    /\ last = NoTurn
    /\ mon = Idle
    /\ logged = 0
    /\ daemon = "setup"
    /\ member = NoMember
    /\ file = NoFile
    /\ cli = NoCli
    /\ seek = NoSeek
    /\ cover_cache = NoCache
    /\ hung = {}
    /\ menu = {<<"tray", "Exit", "">>, <<"watcher", "UpdateVolume", "">>}
    /\ limit = MaxExternal
    /\ spare = 0

NextStartup ==
    \/ Create
    \/ daemon = "listening" /\ Next

SpecStartup == InitStartup /\ [][NextStartup]_vars

\* startup followed by requests to attach, changes of the playback and Ctrl-C
InitAtStart ==
    /\ listeners = <<>>
    /\ queue = <<>>
    /\ outbox = <<>>
    /\ done = FALSE
    /\ config \in [detach_on_stop : BOOLEAN, exit_with_plugin : BOOLEAN]
    /\ ticket = 0
    /\ seen = [p \in Producers |-> 0]
    /\ last = NoTurn
    /\ mon = Idle
    /\ logged = 0
    /\ daemon = "setup"
    /\ member = NoMember
    /\ file = NoFile
    /\ cli = NoCli
    /\ seek = NoSeek
    /\ cover_cache = NoCache
    /\ hung = {}
    /\ menu = {<<"tray", "Attached", "true">>, <<"watcher", "UpdatePlayback", "">>,
               <<"signal", "Exit", "">>}
    /\ limit = MaxExternal
    /\ spare = 0

SpecAtStart == InitAtStart /\ [][NextStartup]_vars

----------------------------------------------------------------------------
(* `run`, in front of create *)

\* what is left alone by run
Ran(r, by) ==
    /\ cli' = [cli EXCEPT !.by = by, !.pid = r.pid, !.failed = r.failed]
    /\ daemon' = IF r.failed = "" THEN "setup" ELSE "refused"
    /\ UNCHANGED <<listeners, queue, outbox, done, config, ticket, seen, last, mon, spare,
                   logged, menu, limit, member, file, hung, cover_cache, seek>>

\* `run` of daemon.rs is called with the options
RunDaemon ==
    /\ daemon = "start"
    /\ \E killed \in BOOLEAN :
          \E r \in {DaemonRun(cli.force, cli.replace, cli.detach, cli.pid, killed)} :
             Ran(r, "daemon")

\* `run` of main.rs is called with the options
RunMain ==
    /\ daemon = "start"
    /\ \E killed \in BOOLEAN :
          \E r \in {MainRun(cli.force, cli.replace, cli.detach, cli.pid, killed)} :
             Ran(r, "main")

\* any options, with or without the pid of a running daemon on record; then
\* the daemon runs until Ctrl-C
InitRun ==
    /\ listeners = <<>>
    /\ queue = <<>>
    /\ outbox = <<>>
    /\ done = FALSE
    /\ config = [detach_on_stop |-> FALSE, exit_with_plugin |-> FALSE]
    /\ ticket = 0
    /\ seen = [p \in Producers |-> 0]
    /\ last = NoTurn
    /\ mon = Idle
    /\ logged = 0
    /\ daemon = "start"
    /\ member = NoMember
    /\ file = NoFile
    /\ \E force \in BOOLEAN, replace \in BOOLEAN, detach \in BOOLEAN,
          found \in {"none", "recorded"} :
          cli = [NoCli EXCEPT !.force = force, !.replace = replace, !.detach = detach,
                              !.found = found, !.pid = found]
    /\ hung = {}
    /\ cover_cache = NoCache
    /\ seek = NoSeek
    /\ menu = {<<"signal", "Exit", "">>}
    /\ limit = 1
    /\ spare = 0

NextRun ==
    \/ RunDaemon
    \/ RunMain
    \/ Create
    \/ daemon = "listening" /\ Next

SpecRun == InitRun /\ [][NextRun]_vars

----------------------------------------------------------------------------
(* One communication file, read by the function that updates from it *)

\* the watcher's command for a file is handled: the file has some text
ReadFile(name) ==
    /\ \E text \in Texts(name) :
          \E r \in {UpdateFrom(name, text)} :
             file' = [name |-> name, text |-> text, out |-> r.out, ok |-> r.ok]
    /\ UNCHANGED <<listeners, queue, outbox, done, config, ticket, seen, last, mon, spare,
                   logged, menu, limit, daemon, member, cli, hung, cover_cache, seek>>

NextFiles == \E name \in FileNames : ReadFile(name)

\* no file has been read; the bus is left out
InitFiles ==
    /\ listeners = <<>>
    /\ queue = <<>>
    /\ outbox = <<>>
    /\ done = FALSE
    /\ config = [detach_on_stop |-> FALSE, exit_with_plugin |-> FALSE]
    /\ ticket = 0
    /\ seen = [p \in Producers |-> 0]
    /\ last = NoTurn
    /\ mon = Idle
    /\ logged = 0
    /\ daemon = "listening"
    /\ menu = {}
    /\ limit = 0
    /\ spare = 0
    /\ member = NoMember
    /\ file = NoFile
    /\ cli = NoCli
    /\ seek = NoSeek
    /\ cover_cache = NoCache
    /\ hung = {}

SpecFiles == InitFiles /\ [][NextFiles]_vars

----------------------------------------------------------------------------
(* Properties *)

Members == 1 .. Len(listeners)

\* a step of the loop: only the loop takes a command out of the channel
TurnStep == Len(queue') < Len(queue)

\* how often member m was called with op in a turn
Count(calls, m, op) ==
    Cardinality({i \in 1 .. Len(calls) : calls[i].m = m /\ calls[i].op = op})

\* the positions in a turn's calls at which member m was called with op
At(calls, m, op) == {i \in 1 .. Len(calls) : calls[i].m = m /\ calls[i].op = op}

\* C1: two commands of one producer are taken from the channel, and handed
\* to the registry, in the order in which that producer submitted them.
C1_OrderPreserved ==
    [][(TurnStep /\ last'.src \in Producers) => last'.n > seen[last'.src]]_vars

\* a producer has had two commands handled, and no other producer any
C1_Witness ==
    /\ ticket = 2
    /\ queue = <<>>
    /\ \E p \in Producers : seen[p] = 2 /\ \A q \in Producers \ {p} : seen[q] = 0

\* C2: when the loop returns on Exit, every member that was attached has
\* been detached by exactly one detach() call, and the others by none.
C2_ExitDrains ==
    done => \A m \in 1 .. Len(last.before) :
                Count(last.calls, m, "detach") = (IF last.before[m] THEN 1 ELSE 0)

\* C3: of two Attached requests for the same state handled one
\* after the other, the second calls no member; over the two of them every
\* member that was not in the requested state is called exactly once.
C3_SecondRequestIdle ==
    [][(TurnStep /\ last.type = "Attached" /\ last'.type = "Attached"
        /\ last'.arg = last.arg)
       => /\ last'.calls = <<>>
          /\ \A m \in 1 .. Len(last.before) :
                (last.before[m] = (last.arg = "false"))
                => Count(last.calls \o last'.calls, m,
                         IF last.arg = "true" THEN "attach" ELSE "detach") = 1]_vars

\* C4: once the three commands of the refresh that follows an attach have
\* been handled, every member that the attach found detached has received
\* on_metadata(M), on_playback(P), on_volume(V), in that order, once each.
C4_RefreshDelivered ==
    (mon.phase = "done" /\ mon.want # <<>>)
    => \A m \in mon.watch : mon.got[m] = mon.want

\* C5: with detach-on-stop, handling Playback(Stopped) calls detach() exactly
\* once on each member that was attached, before playback_inner(Stopped)
\* reaches that member, calls attach() on nobody and requests no attach.
C5_StopDetaches ==
    (last.type = "Playback" /\ last.arg = "stopped" /\ config.detach_on_stop)
    => /\ \A m \in 1 .. Len(last.before) :
              last.before[m]
              => /\ Count(last.calls, m, "detach") = 1
                 /\ \A i \in At(last.calls, m, "detach"),
                       j \in At(last.calls, m, "playback_inner") : i < j
       /\ \A i \in 1 .. Len(last.calls) : last.calls[i].op # "attach"
       /\ \A i \in 1 .. Len(last.out) :
              ~(last.out[i].type = "Attached" /\ last.out[i].arg = "true")

\* C6: the registry is attached exactly if every member is; with any one
\* member detached it is not; and the value Command::handle acts on is the
\* one of the members at that moment.
C6_AggregateAnd ==
    /\ ListAttached(listeners) = (\A m \in Members : listeners[m])
    /\ \A m \in Members : ~ListAttached([listeners EXCEPT ![m] = FALSE])
    /\ last.type # "none"
       => last.attached = (\A m \in 1 .. Len(last.before) : last.before[m])

\* a registry of which the first member is attached and the second is not
C6_Witness ==
    /\ Len(listeners) = 2 /\ listeners[1] /\ ~listeners[2]
    /\ last.type = "Attached" /\ ~last.attached

\* C7: the loop is never stuck in a send to its own channel: whenever a send
\* of Command::handle is outstanding, the channel has room for it or the
\* loop will make room.  The loop makes no room while it is in handle, so
\* the channel must not be full.
C7_SendCompletes ==
    ~(~done /\ outbox # <<>> /\ Len(queue) = Capacity)

\* C8: an error of Command::handle is logged and does not end the loop:
\* the loop returns only when it has taken Exit, and a turn that ends in an
\* error leaves the loop running, with one more error logged.
C8_ErrorDoesNotAbort ==
    [][/\ done' => last'.type = "Exit"
       /\ ~last'.ok => ~done'
       /\ TurnStep => logged' = logged + (IF last'.ok THEN 0 ELSE 1)]_vars

\* a command has been handled without error after an error was logged
C8_Witness ==
    /\ logged >= 1 /\ last.ok /\ ~done
    /\ last.type \in {"Metadata", "Playback", "Volume", "Attached"}
    /\ last.calls # <<>>

\* C9: when a member's call fails in a fan-out, every member that the
\* fan-out is meant to reach has still been called.
C9_FanOutComplete ==
    \A i \in 1 .. Len(last.calls) :
        ~last.calls[i].ok
        => \A m \in 1 .. Len(last.before) :
               LET op == last.calls[i].op
               IN  (CASE op = "attach" -> ~last.before[m]
                      [] op = "detach" -> last.before[m]
                      [] OTHER -> TRUE)
                   => Count(last.calls, m, op) >= 1

\* C10: after an Attached(false) that was handled without error no member
\* is attached.
C10_DetachLeavesNoneAttached ==
    (last.type = "Attached" /\ last.arg = "false" /\ last.ok)
    => \A m \in Members : ~listeners[m]

\* C11: once the loop has taken Exit it takes nothing more: the turn that took
\* Exit stays the last one, no member is called or changed after it, and what
\* was submitted after Exit stays in the channel.
C11_StopsAtExit ==
    [][last.type = "Exit"
       => /\ last' = last
          /\ listeners' = listeners
          /\ queue' = queue
          /\ done]_vars

\* Exit has been taken while a command submitted after it is in the channel
C11_Witness ==
    /\ done /\ last.type = "Exit" /\ last.src = "signal" /\ last.n = 1
    /\ Len(queue) = 1 /\ queue[1].n = 2
\* Command::Exit is in the channel
ExitQueued == \E i \in 1 .. Len(queue) : queue[i].type = "Exit"

\* C12: once Exit has been submitted the loop eventually returns, every
\* listener call returning and the dispatcher being scheduled fairly.
C12_ShutdownTerminates == ExitQueued ~> done
\* C13: handling PluginActivated(a) calls no member and sends exactly one
\* command: Exit if a is false and exit_with_plugin is set, Attached(a)
\* otherwise.
C13_AvailabilityRule ==
    last.type = "PluginActivated"
    => /\ last.ok /\ last.calls = <<>>
       /\ last.out = << IF last.arg = "false" /\ config.exit_with_plugin
                            THEN Own("Exit", "")
                            ELSE Own("Attached", last.arg) >>

\* PluginActivated(false) has been handled with exit_with_plugin set, and the
\* Exit it sent is in the channel
C13_Witness ==
    /\ last.type = "PluginActivated" /\ last.arg = "false" /\ config.exit_with_plugin
    /\ Len(last.out) = 1
    /\ queue # <<>> /\ queue[Len(queue)] = Own("Exit", "")
\* the positions in a turn's calls at which the fan-out of the command itself
\* forwarded the playback state
ForwardedAt(calls) ==
    {i \in 1 .. Len(calls) : calls[i].op = "playback_inner" /\ calls[i].via = "cmd"}

\* the position of the last attach() call of a turn, 0 if there is none
LastAttach(calls) ==
    LET at == {i \in 1 .. Len(calls) : calls[i].op = "attach"}
    IN  IF at = {} THEN 0 ELSE CHOOSE i \in at : \A j \in at : j <= i

\* C14: with detach-on-stop, when Playback(Playing) or Playback(Paused) is
\* handled while the members are detached, attach() is called on every member
\* before the new state is forwarded to any member, and the call that follows
\* the attach belongs to the refresh.
C14_AttachBeforeForward ==
    (/\ last.type = "Playback" /\ last.arg \in {"playing", "paused"}
     /\ config.detach_on_stop
     /\ last.before # <<>> /\ \A m \in 1 .. Len(last.before) : ~last.before[m])
    => /\ \A m \in 1 .. Len(last.before) :
              /\ Count(last.calls, m, "attach") = 1
              /\ \A i \in At(last.calls, m, "attach"), j \in ForwardedAt(last.calls) : i < j
       /\ LET k == LastAttach(last.calls)
          IN  k > 0 /\ k < Len(last.calls) /\ last.calls[k + 1].via = "update"
\* C15: the members are called from the dispatcher only: every turn in which
\* a member was called ran in the dispatcher's context.
C15_SingleOwner == last.calls # <<>> => last.ctx = "dispatcher"

\* C16: teardown order: the producers (file watcher, tray loop) are stopped
\* first, then Exit is delivered and awaited, and only then is the registry
\* dropped; no producer is still running while or after the dispatcher
\* processes Exit.
C16_ProducersStoppedFirst ==
    (last.type = "Exit" \/ RegistryDropped) => ~WatcherRunning /\ ~TrayRunning

\* C17: a failed attach leaves the state unchanged: whenever a listener's
\* attach() returns an error, the listener's attached flag has the value it
\* had before the call.
C17_FailedAttachUnchanged ==
    (member.op = "attach" /\ member.res = "err") => member.attached = member.before

\* C18: a failed detach leaves the state unchanged: whenever a listener's
\* detach() returns an error, the listener's attached flag has the value it
\* had before the call.
C18_FailedDetachUnchanged ==
    (member.op = "detach" /\ member.res = "err") => member.attached = member.before

\* C19: legal lifecycle transitions only: the backend's attach is invoked only
\* while the listener is detached and its detach only while it is attached,
\* and no sequence of commands makes the assertions of Controls::attach and
\* Controls::detach fail.
C19_LegalTransitions ==
    /\ \A i \in 1 .. Len(member.backend) :
          /\ member.backend[i].call = "attach" => ~member.backend[i].at
          /\ member.backend[i].call = "detach" => member.backend[i].at
    /\ member.via = "handle" => member.res # "panic"

\* Controls::handle is handed Attached(true) while attached after an attach
\* through handle, and Attached(false) while detached: neither reaches the
\* backend
C19_Witness ==
    /\ member.kind = "controls"
    /\ member.via = "handle"
    /\ member.cmd.type = "Attached"
    /\ member.cmd.arg = "true"
    /\ member.before
    /\ member.n >= 2
    /\ member.op = "none"
    /\ member.backend = <<>>

\* C20: a redundant lifecycle call is an error value, never a crash: attach()
\* on an attached listener fails with AlreadyAttached and detach() on a
\* detached one with AlreadyDetached; the state is unchanged, no backend call
\* is made and nothing panics.
C20_RedundantIsError ==
    (/\ member.via = "call"
     /\ member.kind \in {"controls", "legacy"}
     /\ member.cmd.type = (IF member.before THEN "attach" ELSE "detach"))
    => /\ member.res = "err"
       /\ member.err = (IF member.before THEN "AlreadyAttached" ELSE "AlreadyDetached")
       /\ member.attached = member.before
       /\ member.backend = <<>>

\* C21: a listener whose construction fails at startup is left out of the
\* registry and the bus is started with the others: startup is never ended
\* by the failure.
C21_StartupDegrades == daemon \notin {"failed", "panicked"}

\* the lines of the file that was read that are not blank
NonBlank == {i \in 1 .. Len(file.text.lines) : Trim(file.text.lines[i]) # ""}

\* the file that was read reports `loading`
Loading ==
    /\ file.name = "playback"
    /\ Len(file.text.lines) >= 1
    /\ Trim(file.text.lines[1]) = "loading"

\* the file that was read is malformed: it is not empty and has the wrong
\* number of lines, an unknown playback word, or a duration, progress,
\* volume or availability that cannot be parsed
Malformed ==
    /\ file.text.lines # <<>>
    /\ CASE file.name = "metadata" ->
              \/ Len(file.text.lines) # 5
              \/ file.text.lines[5] # "7"
         [] file.name = "playback" ->
              \/ Len(file.text.lines) # 2
              \/ Trim(file.text.lines[1]) \notin PlaybackStates \cup {"loading"}
              \/ file.text.lines[2] # "7"
         [] file.name = "volume" ->
              \/ Cardinality(NonBlank) # 1
              \/ \E i \in NonBlank : Trim(file.text.lines[i]) # "7"
         [] file.name = "plugin" ->
              \/ file.text.nl
              \/ file.text.lines \notin {<<"true">>, <<"false">>}
         [] OTHER -> FALSE

\* C22: malformed input never reaches the bus: for a file that is empty,
\* reports `loading` or is malformed no command is sent; malformed content is
\* returned as an error, empty content is passed over without one.
C22_MalformedRejected ==
    /\ (file.text.lines = <<>> \/ Loading \/ Malformed) => file.out = <<>>
    /\ Malformed => ~file.ok
    /\ (file.name # "none" /\ file.text.lines = <<>>) => file.ok

\* a playback file with an unknown word and a good progress was read
C22_Witness ==
    /\ file.name = "playback"
    /\ file.text.lines = <<"junk", "7">>
    /\ ~file.ok
    /\ file.out = <<>>

\* the newest ticket the loop has taken from the channel
Taken == CHOOSE n \in {seen[p] : p \in Producers} : \A p \in Producers : seen[p] <= n

\* the producers' commands that are in the channel, oldest first
Pending == SelectSeq(queue, LAMBDA c : c.src \in Producers)

\* C23: exactly-once consumption: the commands the producers have submitted
\* are the ones the loop has taken, in the order of submission and each
\* once, followed by the ones in the channel, each there once; when the loop
\* takes Exit every command submitted ahead of it has been handled.
C23_ExactlyOnce ==
    /\ Len(Pending) = ticket - Taken
    /\ \A i \in 1 .. Len(Pending) : Pending[i].n = Taken + i
    /\ (last.src \in Producers /\ last.ctx = "dispatcher") => last.n = Taken

\* Exit was submitted second and has been taken, after the command ahead of it
C23_Witness ==
    /\ done
    /\ last.type = "Exit"
    /\ last.n = 2
    /\ Taken = 2
    /\ \E p \in Producers : seen[p] = 1

\* the member call by which a command is observed
Observed(type) ==
    CASE type = "Metadata" -> "metadata"
      [] type = "Volume" -> "volume"
      [] type = "Playback" -> "playback_inner"

\* C24: barrier between commands: when the loop takes a command from the
\* channel, every member of the registry has observed the command taken
\* before it (has been handed its metadata, volume or playback state), once.
C24_Barrier ==
    [][(TurnStep /\ last.ctx = "dispatcher" /\ last.type \in {"Metadata", "Volume", "Playback"})
       => \A m \in 1 .. Len(last.before) :
             Cardinality({i \in At(last.calls, m, Observed(last.type)) :
                             last.calls[i].via = "cmd"}) = 1]_vars

\* C25: detached members ignore updates: a listener hands metadata, volume
\* and playback state to its backend only while it is attached.
C25_DetachedIgnoresUpdates ==
    \A i \in 1 .. Len(member.backend) :
        member.backend[i].call \in {"metadata", "volume", "playback"}
        => member.backend[i].at

\* C26: with the force option, the pid of a daemon on record never makes
\* startup fail.
C26_ForceIgnoresPid ==
    (cli.force /\ cli.found = "recorded" /\ cli.by # "none") => cli.failed = ""

\* the command is in the channel or in a send of Command::handle
InFlight(c) ==
    \/ \E i \in 1 .. Len(queue) : queue[i] = c
    \/ \E i \in 1 .. Len(outbox) : outbox[i] = c

\* C27: when the plugin has become unavailable with exit_with_plugin set and
\* the playback has stopped, so that the Exit of the one and the detach
\* request of the other are both on their way, in whichever order, the loop
\* returns: the detach neither replaces the Exit nor holds it up for ever.
C27_ExitTakesPrecedence ==
    (InFlight(Own("Exit", "")) /\ InFlight(Own("Attached", "false"))) ~> done

\* C28: without detach-on-stop, handling Playback, whatever the state, calls
\* only playback_inner on the members, leaves the attached flag of every
\* member as it was and sends no command.
C28_PolicyOffForwardsOnly ==
    (last.type = "Playback" /\ ~config.detach_on_stop)
    => /\ listeners = last.before
       /\ \A i \in 1 .. Len(last.calls) : last.calls[i].op = "playback_inner"
       /\ last.out = <<>>

\* Playback(Stopped) has been handled without the policy while a member was
\* attached, and the state was handed to the members
C28_Witness ==
    /\ last.type = "Playback" /\ last.arg = "stopped"
    /\ ~config.detach_on_stop
    /\ last.ok /\ last.calls # <<>>
    /\ \E m \in 1 .. Len(last.before) : last.before[m]
    /\ \E m \in 1 .. Len(last.before) : ~last.before[m]

\* C29: handling Attached(true) while the registry says it is attached, or
\* Attached(false) while it says it is not, calls no member, sends no command
\* and leaves the attached flag of every member as it was.
C29_RedundantRequestNoOp ==
    (/\ last.type = "Attached"
     /\ (last.arg = "true") = ListAttached(last.before))
    => /\ last.ok
       /\ last.calls = <<>>
       /\ last.out = <<>>
       /\ listeners = last.before

\* Attached(true) has been handled while both members were attached
C29_Witness ==
    /\ last.type = "Attached" /\ last.arg = "true"
    /\ last.before = <<TRUE, TRUE>>
    /\ last.calls = <<>>
    /\ listeners = <<TRUE, TRUE>>

\* C30: with detach-on-stop, once Playback(Playing) or Playback(Paused) has
\* been handled while the registry was detached, the registry comes to be
\* attached, however it had been detached, as long as the loop is not ended
\* by Exit before.
C30_ResumeAttaches ==
    (/\ last.type = "Playback" /\ last.arg \in {"playing", "paused"}
     /\ config.detach_on_stop
     /\ ~ListAttached(last.before))
    ~> (ListAttached(listeners) \/ done)

\* C31: handling Attached(true) on a registry that is not attached sends
\* exactly one Update when the attach of every member succeeded, all members
\* being attached then, and sends nothing when the attach of a member failed.
C31_RefreshAfterAttach ==
    (last.type = "Attached" /\ last.arg = "true" /\ ~ListAttached(last.before))
    => /\ \A i \in 1 .. Len(last.calls) : last.calls[i].op = "attach"
       /\ last.ok = (\A i \in 1 .. Len(last.calls) : last.calls[i].ok)
       /\ last.ok => /\ last.out = <<Own("Update", "")>>
                     /\ ListAttached(listeners)
                     /\ \A m \in 1 .. Len(last.before) :
                            Count(last.calls, m, "attach") = (IF last.before[m] THEN 0 ELSE 1)
       /\ ~last.ok => last.out = <<>>

\* the attach of the second member failed after the first was attached, and
\* no refresh was requested
C31_Witness ==
    /\ last.type = "Attached" /\ last.arg = "true"
    /\ last.before = <<FALSE, FALSE>>
    /\ ~last.ok
    /\ Len(last.calls) = 2
    /\ last.out = <<>>
    /\ outbox = <<>>

\* C32: no producer calls the sender after listen_until_exit has returned
\* and dropped the receiver: the expect of MessageSender::blocking_send never
\* panics.
C32_NoSendAfterClose == hung = {}

\* the loop has returned, or nothing is in the channel or on its way to it
Quiet == done \/ (queue = <<>> /\ outbox = <<>>)

\* C33: the commands Command::handle sends to its own channel do not feed
\* each other for ever: once the producers submit nothing more, the channel
\* runs empty and stays empty, whatever detach_on_stop is and whatever the
\* members' state was.
C33_ChainEnds == <>[]Quiet

\* the longest chain has run out: the refresh after an attach found the
\* playback stopped, the stop detached the members, and the detach request
\* that followed found nothing to do
C33_Witness ==
    /\ queue = <<>> /\ outbox = <<>> /\ ~done
    /\ config.detach_on_stop
    /\ last.type = "Attached" /\ last.arg = "false" /\ last.src = "self"
    /\ last.calls = <<>>
    /\ ticket = 1
    /\ seen["tray"] = 1
    /\ mon.phase = "done"
    /\ listeners = <<FALSE, FALSE>>

\* C34: a registry without members says it is attached; Attached(true) is
\* then the arm that does nothing, so no Update is sent, and Attached(false)
\* is the detach arm, which finds no member to call.
C34_EmptyRegistryAttached ==
    /\ ListAttached(<<>>)
    /\ (last.type # "none" /\ last.before = <<>>) => last.attached
    /\ (last.type = "Attached" /\ last.before = <<>>)
       => last.ok /\ last.calls = <<>> /\ last.out = <<>> /\ listeners = <<>>

\* Attached(true) has been handled by a registry without members
C34_Witness ==
    /\ last.type = "Attached" /\ last.arg = "true"
    /\ last.before = <<>>
    /\ last.attached
    /\ queue = <<>> /\ outbox = <<>>

\* the refresh that Attached(true) asked for, the only command submitted from
\* outside so far, read the three files, the playback as stopped; its commands
\* and theirs are all handled and nothing has failed
RefreshOfStoppedDone ==
    /\ ticket = 1
    /\ mon.phase = "done"
    /\ mon.want # <<>>
    /\ mon.want[2] = <<"playback_inner", "stopped">>
    /\ queue = <<>> /\ outbox = <<>>
    /\ logged = 0

Attaches == \E m \in 1 .. Len(listeners) : m <= Len(listeners') /\ ~listeners[m] /\ listeners'[m]

\* C36: create asks for an attach exactly when the plugin file reads `true`;
\* whatever it reads, every listener is detached when the loop starts, and a
\* listener is attached only by a command that the loop handles.
C36_InitialAttach ==
    [][/\ (daemon = "setup" /\ daemon' = "listening")
          => /\ \A m \in 1 .. Len(listeners') : ~listeners'[m]
             /\ queue' = IF ReadPlugin(file'.text) = "true"
                             THEN <<Own("Attached", "true")>> ELSE <<>>
       /\ (daemon = "setup" /\ daemon' # "listening") => queue' = <<>>
       /\ Attaches => /\ TurnStep
                      /\ \E i \in 1 .. Len(last'.calls) :
                             last'.calls[i].op = "attach" /\ last'.calls[i].ok]_vars

\* the plugin file was empty at startup: nothing was asked for, and a member
\* is attached since a later Attached(true) from the tray
C36_Witness ==
    /\ file.name = "plugin" /\ file.text.lines = <<>>
    /\ file.out = <<>>
    /\ daemon = "listening"
    /\ last.type = "Attached" /\ last.arg = "true" /\ last.src = "tray"
    /\ last.before # <<>>
    /\ \A m \in 1 .. Len(listeners) : listeners[m]

\* C37: when Rpc::metadata is handed the url of a local file that the cache
\* holds with a url that is still valid, the upload service is not called,
\* the cached url is the one shown and the map is left as it was; a url of
\* another scheme is shown unchanged, nothing is uploaded and the map is left
\* as it was; and since the last clear every file has been stored by an upload
\* at most once more often than its url has stopped being valid.
C37_CacheHit ==
    [][(cover_cache'.op = "metadata" /\ cover_cache.attached /\ cover_cache'.arg.parses)
          => /\ \A p \in Paths :
                   ( /\ cover_cache'.arg.url = Url("file", "", p, 0)
                     /\ cover_cache.cached[p].id # 0
                     /\ cover_cache.cached[p].valid )
                   => /\ cover_cache'.uploaded = <<>>
                      /\ cover_cache'.out = Public(cover_cache.cached[p].id)
                      /\ cover_cache'.cached = cover_cache.cached
             /\ cover_cache'.arg.url.scheme # "file"
                   => /\ cover_cache'.uploaded = <<>>
                      /\ cover_cache'.out = cover_cache'.arg.url
                      /\ cover_cache'.cached = cover_cache.cached
             /\ \A p \in Paths : cover_cache'.ups[p] <= 1 + cover_cache'.aged[p]]_vars

\* a cover that was uploaded before has just been shown from the cache
C37_Witness ==
    /\ cover_cache.op = "metadata"
    /\ cover_cache.arg.url = Url("file", "", "a.jpg", 0)
    /\ cover_cache.attached
    /\ cover_cache.res = "ok"
    /\ cover_cache.uploaded = <<>>
    /\ cover_cache.ups["a.jpg"] = 1
    /\ cover_cache.out = Public(cover_cache.cached["a.jpg"].id)

\* C38: a call of Rpc::detach on an attached Rpc whose client closes leaves
\* the map without an entry, and has called delete exactly once for each image
\* the map held if the service needs deleting and for no image otherwise,
\* whether or not a deletion failed; and every detach that returns Ok leaves
\* the Rpc detached with an empty map.
C38_ClearDeletesAll ==
    [][/\ (cover_cache'.op = "detach" /\ cover_cache.attached /\ cover_cache'.res # "close")
             => /\ \A p \in Paths : cover_cache'.cached[p] = NoImage
                /\ \A i \in Images :
                      cover_cache'.deleted[i] =
                         IF NeedsDeleting(cover_cache.service) /\ i \in Held(cover_cache.cached)
                         THEN 1 ELSE 0
                /\ ~cover_cache'.attached
       /\ (cover_cache'.op = "detach" /\ cover_cache'.res = "ok")
             => /\ ~cover_cache'.attached
                /\ Held(cover_cache'.cached) = {}]_vars

\* an Rpc that uploads to Imgur has been detached with two covers in its
\* cache, and both were deleted
C38_Witness ==
    /\ cover_cache.service = "Imgur"
    /\ cover_cache.op = "detach"
    /\ cover_cache.res = "ok"
    /\ ~cover_cache.attached
    /\ Held(cover_cache.cached) = {}
    /\ cover_cache.deleted[1] = 1
    /\ cover_cache.deleted[2] = 1

\* i32::MAX milliseconds are 2,147,483 seconds and 647 milliseconds
Fits(d) == d.secs < 2147483 \/ (d.secs = 2147483 /\ d.nanos < 648000000)

\* the whole milliseconds of a duration that fits
Millis(d) == d.secs * 1000 + d.nanos \div 1000000

\* C39: once a seek event has been handled: if the whole milliseconds ms of
\* its duration fit in an i32, the action made is Seek{milis = ms} for Forward
\* and Seek{milis = -ms} for Backward, and what is written is "seek" followed
\* by that number; if they do not fit, the event ends in an error, no action
\* is made and nothing is written; and the negation has not overflowed.
C39_SeekConversion ==
    seek.res # "new"
    => /\ Fits(seek.duration)
             => /\ seek.action = Seek(IF seek.direction = "Forward"
                                      THEN Millis(seek.duration)
                                      ELSE 0 - Millis(seek.duration))
                /\ seek.action.milis \in I32Min .. I32Max
                /\ seek.res = "ok" => seek.written = Display(seek.action)
       /\ ~Fits(seek.duration)
             => /\ seek.res = "err"
                /\ seek.action = NoAction
                /\ seek.written = <<>>
       /\ ~seek.overflow

\* a seek backward by exactly i32::MAX milliseconds has been written
C39_Witness ==
    /\ seek.res = "ok"
    /\ seek.direction = "Backward"
    /\ seek.duration = Duration(2147483, 647999999)
    /\ seek.action = Seek(0 - I32Max)
    /\ seek.written = <<"seek", "-", 2, 1, 4, 7, 4, 8, 3, 6, 4, 7>>

============================================================================
